---- MODULE Spec2Model ----
(***************************************************************************)
(* Health portal: the rule-based symptom analysis of MLService             *)
(* (backend/services/mlService.js) and the disease-outbreak surveillance   *)
(* of the DiseaseCase / DiseaseOutbreak models and their admin routes      *)
(* (Desktop/health-portal-api).                                            *)
(*                                                                         *)
(* Numbers.  Risk scores, confidences and Math.random() samples are        *)
(* fixed-point integers in millionths (1.0 is 1000000), so that            *)
(* 0.6 + Math.random() * 0.3 and Math.round(x * 1000) / 1000 are computed  *)
(* and not assumed.  Temperatures are tenths of a degree Fahrenheit        *)
(* (102 F is 1020).  Dates are whole days.                                 *)
(* An optional field is a set: {} when the field is undefined, {v} when    *)
(* it holds v, so that a comparison with undefined is false as in JS.      *)
(***************************************************************************)
EXTENDS Integers, Sequences, FiniteSets, TLC

VARIABLES
    featureEncoder,   \* MLService.featureEncoder: "null" or "ready"
    report,           \* the SymptomRecord under analysis
    call,             \* the last call made on the service and what it returned
    now,              \* the clock, in days
    cases,            \* the DiseaseCase collection, a sequence indexed by _id
    outbreaks,        \* the DiseaseOutbreak collection, a sequence indexed by _id
    response,         \* the last response of an outbreak route
    runs,             \* the detectNewOutbreaks invocations in flight
    symptomRecords,   \* the SymptomRecord collection, a sequence indexed by _id
    analyses,         \* the SymptomAnalysis collection, a sequence indexed by _id
    patient,          \* symptomAnalysisHistory of the stored Patient document
    historyRuns,      \* the updateSymptomAnalysisHistory invocations in flight
    performed,        \* the number of analyses performed for the patient so far
    accounts,         \* the Patient accounts: isActive and the tokens issued
    uploads           \* the PrescriptionUpload collection and its background parses

vars == <<featureEncoder, report, call, now, cases, outbreaks, response, runs,
          symptomRecords, analyses, patient, historyRuns, performed,
          accounts, uploads>>

patientVars == <<patient, historyRuns, performed>>
portalVars == <<accounts, uploads>>
storeVars == <<symptomRecords, analyses, patientVars, portalVars>>
mlVars == <<featureEncoder, report, call, storeVars>>
outbreakVars == <<now, cases, outbreaks, response, runs>>

(***************************************************************************)
(* Bounds of the model.                                                    *)
(***************************************************************************)
MaxSymptoms == 2
MaxCases == 2          \* disease cases, in the specifications of the admin routes
MaxSurgeCases == 5     \* disease cases, in the specification of a surge of cases
MaxOutbreaks == 2
MaxDay == 2
MaxRuns == 2           \* detection requests served at the same time

Min(a, b) == IF a <= b THEN a ELSE b

Range(s) == {s[i] : i \in DOMAIN s}

SeqsUpTo(S, n) == UNION {[1..k -> S] : k \in 1..n}

(***************************************************************************)
(* Symptom reports.                                                        *)
(***************************************************************************)
\* Names a patient may submit: validateSymptomRecord accepts any name of 2
\* to 50 characters.  "Fever" stands for a name in another case, "rash" for
\* a name no table knows, "constructor" for a name that is a property every
\* JS object inherits from Object.prototype.
SymptomNames ==
    {"fever", "Fever", "cough", "chest_pain", "nausea", "vomiting",
     "headache", "severe_headache", "dizziness", "fatigue", "rash", "constructor"}

Severities == {3, 8}

\* String.prototype.toLowerCase on the strings of the model.
toLowerCase(s) ==
    CASE s = "Fever" -> "fever"
      [] s = "Respiratory Infection" -> "respiratory infection"
      [] s = "Gastrointestinal" -> "gastrointestinal"
      [] s = "Unknown" -> "unknown"
      [] s = "Dry Cough" -> "dry cough"
      [] s = "High Temperature" -> "high temperature"
      [] OTHER -> s

\* String.prototype.includes for the needles generateRecommendations uses.
includes(s, needle) ==
    CASE needle = "fever" -> s \in {"fever", "high fever"}
      [] needle = "temperature" -> s \in {"high temperature"}
      [] needle = "cough" -> s \in {"cough", "dry cough"}
      [] OTHER -> s = needle

VitalSamples ==
    { [temperature |-> t, heartRate |-> h, oxygenSaturation |-> o] :
        t \in {{}, {1025}, {1035}}, h \in {{}, {100}, {101}}, o \in {{}, {95}, {90}} }

\* A curated part of VitalSamples: each vital sign abnormal alone, at its
\* boundary, all absent and all abnormal.
VitalProfiles ==
    { v \in VitalSamples :
        \/ Cardinality({f \in {"t", "h", "o"} :
               CASE f = "t" -> v.temperature # {}
                 [] f = "h" -> v.heartRate # {}
                 [] f = "o" -> v.oxygenSaturation # {}}) <= 1
        \/ v = [temperature |-> {1035}, heartRate |-> {101}, oxygenSaturation |-> {90}]
        \/ v = [temperature |-> {1025}, heartRate |-> {100}, oxygenSaturation |-> {95}] }

AdditionalInfos ==
    [recentTravel : BOOLEAN, recentExposure : BOOLEAN]

NoVitals == [temperature |-> {}, heartRate |-> {}, oxygenSaturation |-> {}]
NoInfo == [recentTravel |-> FALSE, recentExposure |-> FALSE]

\* Vital signs with no flag set, and flags with no vital sign given.
ReportContexts ==
    { c \in [vitalSigns : VitalProfiles, additionalInfo : AdditionalInfos] :
        c.vitalSigns = NoVitals \/ c.additionalInfo = NoInfo }

\* The names submitted with a severe (>= 8) severity in the analysis runs.
SevereNames == {"fever", "chest_pain"}

AnalysisEntries ==
    { e \in [name : SymptomNames, severity : Severities] :
        e.severity >= 8 => e.name \in SevereNames }

MakeReport(symptoms, context) ==
    [symptoms |-> symptoms,
     vitalSigns |-> context.vitalSigns,
     additionalInfo |-> context.additionalInfo]

\* The reports of the analysis runs.
AnalysisReports ==
    { MakeReport(s, c) : s \in SeqsUpTo(AnalysisEntries, MaxSymptoms), c \in ReportContexts }

\* The reports of the direct calls of shouldFlagForReview and
\* generateRecommendations: few names, every severity.
FnNames == {"fever", "Dry Cough", "rash"}

FnReports ==
    { MakeReport(s, c) :
        s \in SeqsUpTo([name : FnNames, severity : Severities], MaxSymptoms),
        c \in ReportContexts }

NoCall == [op |-> "none"]

(***************************************************************************)
(* MLService.analyzeSymptoms and its helpers.                              *)
(***************************************************************************)
\* The keys every object literal inherits from Object.prototype and that are
\* still themselves after toLowerCase: symptomWeights[key] is then a function
\* or an object, which is truthy and is not a number.
ObjectPrototypeKeys == {"constructor", "__proto__"}

symptomWeights(symptom) ==
    CASE symptom = "fever" -> 300000
      [] symptom = "chest_pain" -> 400000
      [] symptom = "shortness_of_breath" -> 300000
      [] symptom = "dizziness" -> 200000
      [] symptom = "severe_headache" -> 200000
      [] symptom = "cough" -> 150000
      [] symptom = "headache" -> 100000
      [] symptom = "fatigue" -> 100000
      [] symptom = "nausea" -> 150000
      [] symptom = "vomiting" -> 200000
      [] symptom = "diarrhea" -> 150000
      [] symptom = "abdominal_pain" -> 200000
      [] OTHER -> 0

\* symptomRecord.symptoms.map(s => s.name.toLowerCase())
symptomNamesOf(symptomRecord) ==
    [i \in DOMAIN symptomRecord.symptoms |->
        toLowerCase(symptomRecord.symptoms[i].name)]

RECURSIVE SumWeights(_)
SumWeights(names) ==
    IF names = <<>> THEN 0
    ELSE symptomWeights(Head(names)) + SumWeights(Tail(names))

\* symptomNames.forEach(symptom => { if (symptomWeights[symptom]) riskScore += ... })
symptomRisk(symptomNames) == SumWeights(symptomNames)

vitalRisk(vitals) ==
      (IF \E t \in vitals.temperature : t > 1020 THEN 200000 ELSE 0)
    + (IF \E h \in vitals.heartRate : h > 100 THEN 100000 ELSE 0)
    + (IF \E o \in vitals.oxygenSaturation : o < 95 THEN 300000 ELSE 0)

\* computeRiskScore with the Math.min cap left out.
computeRiskScoreUncapped(symptomRecord) ==
    100000 + symptomRisk(symptomNamesOf(symptomRecord))
           + vitalRisk(symptomRecord.vitalSigns)

\* let riskScore = 0.1; ...; riskScore = Math.min(riskScore, 1.0)
computeRiskScore(symptomRecord) ==
    Min(100000 + symptomRisk(symptomNamesOf(symptomRecord))
               + vitalRisk(symptomRecord.vitalSigns),
        1000000)

\* Object.entries(syndromeRules), in insertion order.
syndromeRules ==
    << [syndrome |-> "respiratory_infection",
        triggers |-> {"fever", "cough", "shortness_of_breath", "chest_pain"}],
       [syndrome |-> "gastrointestinal",
        triggers |-> {"nausea", "vomiting", "diarrhea", "abdominal_pain"}],
       [syndrome |-> "flu",
        triggers |-> {"fever", "chills", "muscle_pain", "fatigue", "body_aches"}],
       [syndrome |-> "neurological",
        triggers |-> {"headache", "dizziness", "neck_stiffness", "severe_headache"}],
       [syndrome |-> "cardiac",
        triggers |-> {"chest_pain", "heart_palpitations", "shortness_of_breath"}] >>

\* ruleMatches with the cardiac exception left out.
ruleMatchesNoCardiacRule(rule, symptomNames) ==
    Cardinality({t \in rule.triggers : t \in Range(symptomNames)}) >= 2

\* matches.length >= 2 || (syndrome === 'cardiac' && matches.length >= 1)
ruleMatches(rule, symptomNames) ==
    LET matches == {t \in rule.triggers : t \in Range(symptomNames)}
    IN  \/ Cardinality(matches) >= 2
        \/ rule.syndrome = "cardiac" /\ Cardinality(matches) >= 1

\* for (const [syndrome, triggers] of Object.entries(syndromeRules)) { ... break }
predictSyndrome(symptomNames) ==
    LET hits == {i \in DOMAIN syndromeRules : ruleMatches(syndromeRules[i], symptomNames)}
    IN  IF hits = {} THEN "unknown"
        ELSE syndromeRules[CHOOSE i \in hits : \A j \in hits : i <= j].syndrome

\* Math.round(x * 1000) / 1000 of a non-negative x
round3(x) == ((x + 500) \div 1000) * 1000

\* 0.6 + Math.random() * 0.3, random a sample of [0, 1) in thousandths
drawConfidence(random) == 600000 + random * 300

\* riskTierBlock with strict comparisons at the tier boundaries.
riskTierBlockStrict(riskScore) ==
    IF riskScore > 800000 THEN
        <<"Seek immediate medical attention", "Consider emergency room visit">>
    ELSE IF riskScore > 600000 THEN
        <<"Schedule urgent appointment with healthcare provider",
          "Monitor symptoms closely">>
    ELSE IF riskScore > 400000 THEN
        <<"Schedule routine appointment with healthcare provider",
          "Continue monitoring symptoms">>
    ELSE
        <<"Continue self-care and monitoring",
          "Seek medical attention if symptoms worsen">>

riskTierBlock(riskScore) ==
    IF riskScore >= 800000 THEN
        <<"Seek immediate medical attention", "Consider emergency room visit">>
    ELSE IF riskScore >= 600000 THEN
        <<"Schedule urgent appointment with healthcare provider",
          "Monitor symptoms closely">>
    ELSE IF riskScore >= 400000 THEN
        <<"Schedule routine appointment with healthcare provider",
          "Continue monitoring symptoms">>
    ELSE
        <<"Continue self-care and monitoring",
          "Seek medical attention if symptoms worsen">>

\* syndromeBlock switching on the syndrome as given, without toLowerCase.
syndromeBlockCaseSensitive(syndrome) ==
    CASE syndrome = "respiratory infection" ->
            <<"Rest and stay hydrated", "Use humidifier if available",
              "Avoid close contact with others">>
      [] syndrome = "gastrointestinal" ->
            <<"Maintain hydration",
              "Follow BRAT diet (bananas, rice, applesauce, toast)",
              "Avoid dairy and fatty foods">>
      [] syndrome = "fever" ->
            <<"Monitor temperature regularly", "Stay hydrated",
              "Use fever-reducing medications as directed">>
      [] OTHER -> <<"Follow general illness care guidelines">>

\* switch (syndrome.toLowerCase()) { ... default: ... }
syndromeBlock(syndrome) ==
    CASE toLowerCase(syndrome) = "respiratory infection" ->
            <<"Rest and stay hydrated", "Use humidifier if available",
              "Avoid close contact with others">>
      [] toLowerCase(syndrome) = "gastrointestinal" ->
            <<"Maintain hydration",
              "Follow BRAT diet (bananas, rice, applesauce, toast)",
              "Avoid dairy and fatty foods">>
      [] toLowerCase(syndrome) = "fever" ->
            <<"Monitor temperature regularly", "Stay hydrated",
              "Use fever-reducing medications as directed">>
      [] OTHER -> <<"Follow general illness care guidelines">>

symptomLines(symptomRecord) ==
    LET names == Range(symptomNamesOf(symptomRecord))
        hasFever == \E n \in names : includes(n, "fever") \/ includes(n, "temperature")
        hasCough == \E n \in names : includes(n, "cough")
    IN  (IF hasFever THEN <<"Monitor temperature every 4 hours">> ELSE <<>>)
        \o (IF hasCough THEN <<"Use cough suppressants as needed",
                               "Avoid irritants like smoke">> ELSE <<>>)

generateRecommendations(riskScore, syndrome, symptomRecord) ==
    riskTierBlock(riskScore) \o syndromeBlock(syndrome) \o symptomLines(symptomRecord)

\* shouldFlagForReview with the temperature limit of the risk scorer (102).
shouldFlagForReviewTemp102(riskScore, confidence, symptomRecord) ==
    LET severeSymptoms ==
            Cardinality({i \in DOMAIN symptomRecord.symptoms :
                            symptomRecord.symptoms[i].severity >= 8})
        vitals == symptomRecord.vitalSigns
    IN  \/ riskScore >= 700000
        \/ confidence < 300000
        \/ severeSymptoms >= 2
        \/ symptomRecord.additionalInfo.recentTravel
        \/ symptomRecord.additionalInfo.recentExposure
        \/ \E t \in vitals.temperature : t > 1020
        \/ \E h \in vitals.heartRate : h > 100
        \/ \E o \in vitals.oxygenSaturation : o < 95

shouldFlagForReview(riskScore, confidence, symptomRecord) ==
    LET severeSymptoms ==
            Cardinality({i \in DOMAIN symptomRecord.symptoms :
                            symptomRecord.symptoms[i].severity >= 8})
        vitals == symptomRecord.vitalSigns
    IN  IF riskScore >= 700000 THEN TRUE
        ELSE IF confidence < 300000 THEN TRUE
        ELSE IF severeSymptoms >= 2 THEN TRUE
        ELSE IF symptomRecord.additionalInfo.recentTravel
                \/ symptomRecord.additionalInfo.recentExposure THEN TRUE
        ELSE IF \/ \E t \in vitals.temperature : t > 1030
                \/ \E h \in vitals.heartRate : h > 100
                \/ \E o \in vitals.oxygenSaturation : o < 95 THEN TRUE
        ELSE FALSE

\* The catch block returning a result that is not flagged for review.
errorFallbackUnflagged ==
    [riskScore |-> 500000,
     predictedSyndrome |-> "Unknown",
     confidence |-> 0,
     recommendations |-> <<"Manual review recommended due to analysis error">>,
     flaggedForReview |-> FALSE,
     error |-> TRUE]

\* The catch block of analyzeSymptoms.
errorFallback ==
    [riskScore |-> 500000,
     predictedSyndrome |-> "Unknown",
     confidence |-> 0,
     recommendations |-> <<"Manual review recommended due to analysis error">>,
     flaggedForReview |-> TRUE,
     error |-> TRUE]

\* What the try block throws on: extractFeatures reads
\* this.featureEncoder.symptoms of a null encoder; and once riskScore +=
\* symptomWeights[key] added a function or an object to the number, riskScore
\* is a string and riskScore.toFixed(3) is not a function.
analysisThrows(symptomRecord, encoder) ==
    \/ encoder = "null"
    \/ \E n \in Range(symptomNamesOf(symptomRecord)) : n \in ObjectPrototypeKeys

analyzeSymptoms(symptomRecord, encoder, random) ==
    IF analysisThrows(symptomRecord, encoder) THEN errorFallback
    ELSE
        LET riskScore == computeRiskScore(symptomRecord)
            predictedSyndrome == predictSyndrome(symptomNamesOf(symptomRecord))
            confidence == drawConfidence(random)
        IN  [riskScore |-> round3(riskScore),
             predictedSyndrome |-> predictedSyndrome,
             confidence |-> round3(confidence),
             recommendations |->
                 generateRecommendations(riskScore, predictedSyndrome, symptomRecord),
             flaggedForReview |->
                 shouldFlagForReview(riskScore, confidence, symptomRecord),
             error |-> FALSE]

\* The no-active-model branch of POST /api/patients/symptoms.
routeFallback(random) ==
    [riskScore |-> random * 800,
     predictedSyndrome |-> "Unknown",
     confidence |-> 500000,
     recommendations |-> <<"Manual review recommended - no ML model available">>,
     flaggedForReview |-> TRUE,
     error |-> FALSE]

\* Math.random(): samples of [0, 1), in thousandths.
RandomSamples == {0, 999}

(***************************************************************************)
(* The analysis service as a state machine.                                *)
(***************************************************************************)
\* mlService.initialize(): initializeEncoders sets the encoder from the
\* database or, failing that, to the defaults.
initialize == featureEncoder' = "ready"

\* POST /api/patients/symptoms, past validateSymptomRecord.
SubmitSymptoms(activeModel, random) ==
    /\ initialize
    /\ call' = [op |-> "symptoms",
                route |-> IF activeModel THEN "analyzeSymptoms" ELSE "fallback",
                result |-> IF activeModel
                           THEN analyzeSymptoms(report, "ready", random)
                           ELSE routeFallback(random)]
    /\ UNCHANGED <<report, outbreakVars, storeVars>>

\* POST /api/ml/analyze on a stored record, with an active model.
AnalyzeRecord(random) ==
    /\ call' = [op |-> "analyze",
                route |-> "analyzeSymptoms",
                result |-> analyzeSymptoms(report, featureEncoder, random)]
    /\ UNCHANGED <<featureEncoder, report, outbreakVars, storeVars>>

InitOutbreakIdle ==
    /\ now = 0
    /\ cases = <<>>
    /\ outbreaks = <<>>
    /\ response = [op |-> "none"]
    /\ runs = <<>>

\* The defaults of patientSchema.symptomAnalysisHistory.
NewHistory == [totalAnalyses |-> 0, emergencyAnalyses |-> 0, highRiskAnalyses |-> 0]

InitStoreIdle ==
    /\ symptomRecords = <<>>
    /\ analyses = <<>>
    /\ patient = NewHistory
    /\ historyRuns = <<>>
    /\ performed = 0
    /\ accounts = <<>>
    /\ uploads = <<>>

InitML ==
    /\ featureEncoder = "null"
    /\ report \in AnalysisReports
    /\ call = NoCall
    /\ InitStoreIdle
    /\ InitOutbreakIdle

NextML ==
    \/ \E activeModel \in BOOLEAN, random \in RandomSamples :
          SubmitSymptoms(activeModel, random)
    \/ \E random \in RandomSamples : AnalyzeRecord(random)

SpecML == InitML /\ [][NextML]_vars

(***************************************************************************)
(* Direct calls of the two policy functions of the service.                *)
(***************************************************************************)
RiskSamples == {399999, 400000, 599999, 600000, 799999, 800000, 850000}
FlagRiskSamples == {699999, 700000}
ConfidenceSamples == {299999, 300000}
SyndromeSamples ==
    {"respiratory_infection", "Respiratory Infection", "Gastrointestinal", "fever", "unknown"}

CallShouldFlagForReview(riskScore, confidence) ==
    /\ call' = [op |-> "flag", riskScore |-> riskScore, confidence |-> confidence,
                result |-> shouldFlagForReview(riskScore, confidence, report)]
    /\ UNCHANGED <<featureEncoder, report, outbreakVars, storeVars>>

CallGenerateRecommendations(riskScore, syndrome) ==
    /\ call' = [op |-> "recommend", riskScore |-> riskScore, syndrome |-> syndrome,
                result |-> generateRecommendations(riskScore, syndrome, report)]
    /\ UNCHANGED <<featureEncoder, report, outbreakVars, storeVars>>

InitFn ==
    /\ featureEncoder = "null"
    /\ report \in FnReports
    /\ call = NoCall
    /\ InitStoreIdle
    /\ InitOutbreakIdle

NextFn ==
    \/ \E riskScore \in FlagRiskSamples, confidence \in ConfidenceSamples :
          CallShouldFlagForReview(riskScore, confidence)
    \/ \E riskScore \in RiskSamples, syndrome \in SyndromeSamples :
          CallGenerateRecommendations(riskScore, syndrome)

SpecFn == InitFn /\ [][NextFn]_vars

\* The reports of the calls of generateRecommendations alone: names with and
\* without "fever", "temperature" and "cough", in either case, no vital signs.
RecommendNames == {"fever", "Fever", "Dry Cough", "High Temperature", "rash"}

RecommendReports ==
    { MakeReport(s, [vitalSigns |-> NoVitals, additionalInfo |-> NoInfo]) :
        s \in SeqsUpTo([name : RecommendNames, severity : {3}], MaxSymptoms) }

InitRecommend ==
    /\ featureEncoder = "null"
    /\ report \in RecommendReports
    /\ call = NoCall
    /\ InitStoreIdle
    /\ InitOutbreakIdle

NextRecommend ==
    \E riskScore \in RiskSamples, syndrome \in SyndromeSamples :
        CallGenerateRecommendations(riskScore, syndrome)

SpecRecommend == InitRecommend /\ [][NextRecommend]_vars

(***************************************************************************)
(* Disease cases (Models/DiseaseCase.js) and their routes.                 *)
(***************************************************************************)
Hospital == "Care and Cure Hospital"

\* Predicted diseases; "pneumonia" is one of the criticalDiseases of the
\* SymptomAnalysis pre-save hook.
Diseases == {"flu", "pneumonia"}
criticalDiseases == {"pneumonia"}

\* analysisResult.confidence samples, in millionths.
ConfidenceLevels == {500000, 950000}

CaseStatuses == {"detected", "confirmed", "treated", "resolved", "false_positive"}
OutbreakStatuses == {"detected", "confirmed", "contained", "resolved", "false_alarm"}
SeverityLevels == {"low", "medium", "high", "critical"}

\* symptomAnalysisSchema.pre('save'): severity from the confidence, and the
\* emergency flag and critical severity for a critical disease.
analysisSeverity(predictedDisease, confidence) ==
    IF predictedDisease \in criticalDiseases THEN "critical"
    ELSE IF confidence < 300000 THEN "low"
    ELSE IF confidence < 700000 THEN "medium"
    ELSE IF confidence < 900000 THEN "high"
    ELSE "critical"

analysisIsEmergency(predictedDisease) == predictedDisease \in criticalDiseases

\* POST /symptom-analysis, the analysis having succeeded: new DiseaseCase(...).save()
newDiseaseCase(predictedDisease, confidence) ==
    [diseaseName |-> predictedDisease,
     location |-> Hospital,
     caseDate |-> now,
     severity |-> analysisSeverity(predictedDisease, confidence),
     isEmergency |-> analysisIsEmergency(predictedDisease),
     status |-> "detected",
     isOutbreakRelated |-> FALSE,
     outbreakId |-> {}]

CreateCase(limit, predictedDisease, confidence) ==
    /\ Len(cases) < limit
    /\ cases' = Append(cases, newDiseaseCase(predictedDisease, confidence))
    /\ response' = [op |-> "symptom-analysis", status |-> 201]
    /\ UNCHANGED <<mlVars, now, outbreaks, runs>>

\* PUT /disease-case/:id: findByIdAndUpdate with the fields the body gives.
UpdateDiseaseCase(id, status, isOutbreakRelated) ==
    /\ id \in DOMAIN cases
    /\ cases' = [cases EXCEPT
                    ![id].status = IF status = {} THEN @ ELSE CHOOSE x \in status : TRUE,
                    ![id].isOutbreakRelated =
                        IF isOutbreakRelated = {} THEN @
                        ELSE CHOOSE x \in isOutbreakRelated : TRUE]
    /\ response' = [op |-> "disease-case", status |-> 200]
    /\ UNCHANGED <<mlVars, now, outbreaks, runs>>

\* A day passes.
Tick ==
    /\ now < MaxDay
    /\ now' = now + 1
    /\ UNCHANGED <<mlVars, cases, outbreaks, response, runs>>

(***************************************************************************)
(* Outbreak detection (DiseaseOutbreak model, unnamed/part_005).           *)
(***************************************************************************)
\* The first $match stage with the status filter left out.
matchedCasesAnyStatus(caseList, today, timeWindow) ==
    {i \in DOMAIN caseList : caseList[i].caseDate >= today - timeWindow}

\* The first $match stage: caseDate >= startDate, status in [detected, confirmed]
matchedCases(caseList, today, timeWindow) ==
    {i \in DOMAIN caseList :
        /\ caseList[i].caseDate >= today - timeWindow
        /\ caseList[i].status \in {"detected", "confirmed"}}

SetMin(S) == CHOOSE x \in S : \A y \in S : x <= y
SetMax(S) == CHOOSE x \in S : \A y \in S : x >= y

\* The $group stage, for one (diseaseName, location) key with members ids.
groupOf(caseList, key, ids) ==
    [_id |-> key,
     caseCount |-> Cardinality(ids),
     emergencyCases |-> Cardinality({i \in ids : caseList[i].isEmergency}),
     criticalCases |-> Cardinality({i \in ids : caseList[i].severity = "critical"}),
     firstCaseDate |-> SetMin({caseList[i].caseDate : i \in ids}),
     lastCaseDate |-> SetMax({caseList[i].caseDate : i \in ids}),
     caseIds |-> ids]

\* The aggregation pipeline of detectNewOutbreaks and detectPotentialOutbreaks:
\* $match, $group by (diseaseName, location), $match caseCount >= threshold.
potentialOutbreaks(caseList, today, threshold, timeWindow) ==
    LET matched == matchedCases(caseList, today, timeWindow)
        keys == {[diseaseName |-> caseList[i].diseaseName,
                  location |-> caseList[i].location] : i \in matched}
        groups == {groupOf(caseList, k,
                           {i \in matched : /\ caseList[i].diseaseName = k.diseaseName
                                            /\ caseList[i].location = k.location}) :
                      k \in keys}
    IN  {g \in groups : g.caseCount >= threshold}

\* this.findOne({diseaseName, location, isActive: true}) finds a record.
existingOutbreak(outbreakList, key) ==
    \E o \in DOMAIN outbreakList :
        /\ outbreakList[o].diseaseName = key.diseaseName
        /\ outbreakList[o].location = key.location
        /\ outbreakList[o].isActive

\* detectNewOutbreaks taking the severity from the case count alone.
outbreakSeverityByCountOnly(caseCount, emergencyCases) ==
    IF caseCount >= 20 THEN "critical"
    ELSE IF caseCount >= 10 THEN "high"
    ELSE IF caseCount >= 5 THEN "medium"
    ELSE "low"

\* The severity of a new outbreak by the bands of DISEASE_TRACKING_README.md,
\* where one emergency case is enough for medium.
outbreakSeverityReadme(caseCount, emergencyCases) ==
    IF caseCount >= 20 \/ emergencyCases >= 5 THEN "critical"
    ELSE IF caseCount >= 10 \/ emergencyCases >= 3 THEN "high"
    ELSE IF caseCount >= 5 \/ emergencyCases >= 1 THEN "medium"
    ELSE "low"

\* The severity of a new outbreak.
outbreakSeverity(caseCount, emergencyCases) ==
    IF caseCount >= 20 \/ emergencyCases >= 5 THEN "critical"
    ELSE IF caseCount >= 10 \/ emergencyCases >= 3 THEN "high"
    ELSE IF caseCount >= 5 THEN "medium"
    ELSE "low"

\* new this({...}) of detectNewOutbreaks; the schema defaults fill the rest.
newOutbreak(group, threshold, timeWindow) ==
    [diseaseName |-> group._id.diseaseName,
     location |-> group._id.location,
     startDate |-> group.firstCaseDate,
     status |-> "detected",
     severity |-> outbreakSeverity(group.caseCount, group.emergencyCases),
     totalCases |-> group.caseCount,
     emergencyCases |-> group.emergencyCases,
     criticalCases |-> group.criticalCases,
     resolvedCases |-> 0,
     threshold |-> threshold,
     timeWindow |-> timeWindow,
     affectedPatients |-> group.caseIds,
     actions |-> <<>>,
     isActive |-> TRUE]

\* The for loop of detectNewOutbreaks with the findOne check left out.
RECURSIVE detectLoopNoCheck(_, _, _, _)
detectLoopNoCheck(groups, outbreakList, threshold, timeWindow) ==
    IF groups = <<>> THEN outbreakList
    ELSE detectLoopNoCheck(Tail(groups),
                           Append(outbreakList, newOutbreak(Head(groups), threshold, timeWindow)),
                           threshold, timeWindow)

\* The for loop of detectNewOutbreaks over the groups in the order the
\* aggregation returned them, run without interruption: the collection after it.
RECURSIVE detectLoop(_, _, _, _)
detectLoop(groups, outbreakList, threshold, timeWindow) ==
    IF groups = <<>> THEN outbreakList
    ELSE IF existingOutbreak(outbreakList, Head(groups)._id)
         THEN detectLoop(Tail(groups), outbreakList, threshold, timeWindow)
         ELSE detectLoop(Tail(groups),
                         Append(outbreakList, newOutbreak(Head(groups), threshold, timeWindow)),
                         threshold, timeWindow)

\* The orders in which an aggregation without $sort may return a set of groups.
Orderings(S) ==
    {q \in [1..Cardinality(S) -> S] : \A i, j \in DOMAIN q : i # j => q[i] # q[j]}

Thresholds == {1, 2}
TimeWindows == {1, 7}
\* The default threshold and window.
SurgeThresholds == {3}
SurgeTimeWindows == {7}

\* POST /outbreaks/detect served without another request in between.
DetectOutbreaks(threshold, timeWindow) ==
    \E groups \in Orderings(potentialOutbreaks(cases, now, threshold, timeWindow)) :
        LET after == detectLoop(groups, outbreaks, threshold, timeWindow)
        IN  /\ Len(after) <= MaxOutbreaks
            /\ outbreaks' = after
            /\ response' = [op |-> "detect",
                            status |-> 200,
                            newOutbreaks |-> (Len(outbreaks) + 1)..Len(after),
                            threshold |-> threshold,
                            timeWindow |-> timeWindow]
            /\ UNCHANGED <<mlVars, now, cases, runs>>

\* GET /outbreak-monitoring: DiseaseCase.detectPotentialOutbreaks.
MonitorOutbreaks(threshold, timeWindow) ==
    /\ response' = [op |-> "monitor",
                    status |-> 200,
                    potentialOutbreaks |-> potentialOutbreaks(cases, now, threshold, timeWindow),
                    threshold |-> threshold,
                    timeWindow |-> timeWindow]
    /\ UNCHANGED <<mlVars, now, cases, outbreaks, runs>>

\* POST /outbreaks/manual.  An active outbreak of the disease at the hospital
\* answers 400; otherwise the outbreak is saved, the cases of the disease not
\* yet outbreak-related are linked to it (updateMany), and its totals are set
\* from the cases that carry its id.
ManualOutbreak(diseaseName, severity) ==
    IF existingOutbreak(outbreaks, [diseaseName |-> diseaseName, location |-> Hospital])
    THEN /\ response' = [op |-> "manual", status |-> 400]
         /\ UNCHANGED <<mlVars, now, cases, outbreaks, runs>>
    ELSE
        LET id == Len(outbreaks) + 1
            linked == [i \in DOMAIN cases |->
                          IF /\ cases[i].diseaseName = diseaseName
                             /\ cases[i].location = Hospital
                             /\ ~cases[i].isOutbreakRelated
                          THEN [cases[i] EXCEPT !.isOutbreakRelated = TRUE,
                                                !.outbreakId = {id}]
                          ELSE cases[i]]
            affectedCases == {i \in DOMAIN linked :
                                 /\ linked[i].diseaseName = diseaseName
                                 /\ linked[i].outbreakId = {id}}
        IN  /\ id <= MaxOutbreaks
            /\ cases' = linked
            /\ outbreaks' = Append(outbreaks,
                   [diseaseName |-> diseaseName,
                    location |-> Hospital,
                    startDate |-> now,
                    status |-> "confirmed",
                    severity |-> severity,
                    totalCases |-> Cardinality(affectedCases),
                    emergencyCases |-> Cardinality({i \in affectedCases : linked[i].isEmergency}),
                    criticalCases |->
                        Cardinality({i \in affectedCases : linked[i].severity = "critical"}),
                    resolvedCases |-> 0,
                    threshold |-> 1,
                    timeWindow |-> 1,
                    affectedPatients |-> affectedCases,
                    actions |-> <<"Manual Declaration">>,
                    isActive |-> TRUE])
            /\ response' = [op |-> "manual", status |-> 200]
            /\ UNCHANGED <<mlVars, now, runs>>

\* PUT /outbreaks/:id: findByIdAndUpdate with the fields the body gives; an
\* actions array in the body, the empty one too, replaces the stored one.
UpdateOutbreak(id, status, severity, actions, isActive) ==
    IF id \notin DOMAIN outbreaks
    THEN /\ response' = [op |-> "update", status |-> 404]
         /\ UNCHANGED <<mlVars, now, cases, outbreaks, runs>>
    ELSE /\ outbreaks' = [outbreaks EXCEPT
                ![id].status = IF status = {} THEN @ ELSE CHOOSE x \in status : TRUE,
                ![id].severity = IF severity = {} THEN @ ELSE CHOOSE x \in severity : TRUE,
                ![id].actions = IF actions = {} THEN @ ELSE CHOOSE x \in actions : TRUE,
                ![id].isActive = IF isActive = {} THEN @ ELSE CHOOSE x \in isActive : TRUE]
         /\ response' = [op |-> "update", status |-> 200]
         /\ UNCHANGED <<mlVars, now, cases, runs>>

InitMLIdle ==
    /\ featureEncoder = "null"
    /\ report = MakeReport(<<[name |-> "fever", severity |-> 3]>>,
                           [vitalSigns |-> NoVitals, additionalInfo |-> NoInfo])
    /\ call = NoCall
    /\ InitStoreIdle

InitOutbreaks == InitMLIdle /\ InitOutbreakIdle

\* The queries sent to GET /outbreak-monitoring.
MonitorQueries ==
    {[threshold |-> 1, timeWindow |-> 7], [threshold |-> 2, timeWindow |-> 1]}

\* Case reports, status reviews and monitoring over a few cases.
NextAggregate ==
    \/ \E d \in Diseases, c \in ConfidenceLevels : CreateCase(MaxCases, d, c)
    \/ \E id \in DOMAIN cases, st \in CaseStatuses : UpdateDiseaseCase(id, {st}, {})
    \/ Tick
    \/ \E q \in MonitorQueries : MonitorOutbreaks(q.threshold, q.timeWindow)

SpecAggregate == InitOutbreaks /\ [][NextAggregate]_vars

\* The bodies an administrator sends to PUT /outbreaks/:id.
UpdateBodies ==
    {[status |-> {"resolved"}, severity |-> {}, actions |-> {}, isActive |-> {FALSE}],
     [status |-> {}, severity |-> {}, actions |-> {}, isActive |-> {TRUE}]}

\* The admin routes served one request at a time.
Next ==
    \/ \E d \in Diseases, c \in {500000} : CreateCase(MaxCases, d, c)
    \/ \E t \in Thresholds, w \in SurgeTimeWindows : DetectOutbreaks(t, w)
    \/ \E d \in Diseases, sv \in {"medium"} : ManualOutbreak(d, sv)
    \/ \E id \in 1..MaxOutbreaks, b \in UpdateBodies :
          UpdateOutbreak(id, b.status, b.severity, b.actions, b.isActive)

Spec == InitOutbreaks /\ [][Next]_vars

(***************************************************************************)
(* detectNewOutbreaks as the event loop runs it: the function gives up     *)
(* control at each await (the aggregation, each findOne, each save), and   *)
(* another request may be served in between.                               *)
(***************************************************************************)
IdleRun ==
    [pc |-> "idle", threshold |-> 0, timeWindow |-> 0,
     pending |-> {}, current |-> {}, newOutbreaks |-> {}]

\* POST /outbreaks/detect arrives: await DiseaseCase.aggregate([...])
StartRun(p, threshold, timeWindow) ==
    /\ runs[p].pc = "idle"
    /\ runs' = [runs EXCEPT ![p] =
                   [pc |-> "loop", threshold |-> threshold, timeWindow |-> timeWindow,
                    pending |-> potentialOutbreaks(cases, now, threshold, timeWindow),
                    current |-> {}, newOutbreaks |-> {}]]
    /\ UNCHANGED <<mlVars, now, cases, outbreaks, response>>

\* The next group of the for loop: await this.findOne({..., isActive: true}).
\* A group with an active outbreak is skipped; otherwise the run goes on to
\* build the new outbreak and save it.
FindExisting(p) ==
    /\ runs[p].pc = "loop"
    /\ \E g \in runs[p].pending :
          runs' = [runs EXCEPT
                      ![p].pending = @ \ {g},
                      ![p].pc = IF existingOutbreak(outbreaks, g._id) THEN "loop" ELSE "save",
                      ![p].current = IF existingOutbreak(outbreaks, g._id) THEN {} ELSE {g}]
    /\ UNCHANGED <<mlVars, now, cases, outbreaks, response>>

\* await newOutbreak.save(); newOutbreaks.push(newOutbreak)
SaveOutbreak(p) ==
    /\ runs[p].pc = "save"
    /\ Len(outbreaks) < MaxOutbreaks
    /\ \E g \in runs[p].current :
          outbreaks' = Append(outbreaks, newOutbreak(g, runs[p].threshold, runs[p].timeWindow))
    /\ runs' = [runs EXCEPT ![p].pc = "loop",
                            ![p].current = {},
                            ![p].newOutbreaks = @ \cup {Len(outbreaks) + 1}]
    /\ UNCHANGED <<mlVars, now, cases, response>>

\* return newOutbreaks; res.json({...})
FinishRun(p) ==
    /\ runs[p].pc = "loop"
    /\ runs[p].pending = {}
    /\ response' = [op |-> "detect",
                    status |-> 200,
                    newOutbreaks |-> runs[p].newOutbreaks,
                    threshold |-> runs[p].threshold,
                    timeWindow |-> runs[p].timeWindow]
    /\ runs' = [runs EXCEPT ![p] = IdleRun]
    /\ UNCHANGED <<mlVars, now, cases, outbreaks>>

InitConcurrent ==
    /\ InitMLIdle
    /\ now = 0
    /\ cases = <<>>
    /\ outbreaks = <<>>
    /\ response = [op |-> "none"]
    /\ runs = [p \in 1..MaxRuns |-> IdleRun]

\* Case reports and detection requests served concurrently.
NextConcurrent ==
    \/ \E d \in Diseases, c \in {500000} : CreateCase(MaxCases, d, c)
    \/ \E p \in 1..MaxRuns, t \in Thresholds, w \in SurgeTimeWindows : StartRun(p, t, w)
    \/ \E p \in 1..MaxRuns : FindExisting(p)
    \/ \E p \in 1..MaxRuns : SaveOutbreak(p)
    \/ \E p \in 1..MaxRuns : FinishRun(p)

SpecConcurrent == InitConcurrent /\ [][NextConcurrent]_vars

\* A surge of cases on one day, with detection runs.
NextSurge ==
    \/ \E d \in Diseases, c \in ConfidenceLevels : CreateCase(MaxSurgeCases, d, c)
    \/ \E t \in SurgeThresholds, w \in SurgeTimeWindows : DetectOutbreaks(t, w)

SpecSurge == InitOutbreaks /\ [][NextSurge]_vars

(***************************************************************************)
(* Symptom submission and re-analysis over the SymptomRecord collection    *)
(* (backend/routes/ml.js, backend/middleware/validation.js).               *)
(***************************************************************************)
MaxRecords == 2

\* String.prototype.length of the symptom names of the model, after trim().
length(s) ==
    CASE s = "" -> 0
      [] s = "x" -> 1
      [] s = "fever" -> 5
      [] s = "cough" -> 5
      [] OTHER -> 10

\* DurationUnits with one more unit accepted.
DurationUnitsWithYears == {"minutes", "hours", "days", "weeks", "years"}

DurationUnits == {"minutes", "hours", "days", "weeks"}

\* The symptom entries a client may send: names of 1 and of 5 characters,
\* severities on both sides of 1 and of 10, a unit inside and outside the list.
SubmissionEntries ==
    [name : {"fever", "x"},
     severity : {0, 1, 10, 11},
     duration : [value : {2}, unit : {"days", "years"}]]

SubmissionVitals ==
    {NoVitals, [NoVitals EXCEPT !.temperature = {1200}]}

\* The request bodies of POST /api/patients/symptoms, the empty list included.
SubmissionBodies ==
    { MakeReport(s, [vitalSigns |-> v, additionalInfo |-> NoInfo]) :
        s \in {<<>>} \cup SeqsUpTo(SubmissionEntries, MaxSymptoms),
        v \in SubmissionVitals }

\* validateSymptomRecord: the errors of validationResult(req), each with the
\* field that failed (the path symptoms[index].field has the JS index).
validateSymptomRecord(body) ==
    LET at(field, bad) ==
            {[field |-> field, index |-> i - 1] : i \in {j \in DOMAIN body.symptoms : bad[j]}}
        whole(field, bad) ==
            IF bad THEN {[field |-> field, index |-> -1]} ELSE {}
    IN  whole("symptoms", ~(Len(body.symptoms) >= 1))
        \cup at("name", [j \in DOMAIN body.symptoms |->
                            \/ length(body.symptoms[j].name) = 0
                            \/ length(body.symptoms[j].name) < 2
                            \/ length(body.symptoms[j].name) > 50])
        \cup at("severity", [j \in DOMAIN body.symptoms |->
                            ~(body.symptoms[j].severity >= 1 /\ body.symptoms[j].severity <= 10)])
        \cup at("duration.value", [j \in DOMAIN body.symptoms |->
                            ~(body.symptoms[j].duration.value >= 0)])
        \cup at("duration.unit", [j \in DOMAIN body.symptoms |->
                            body.symptoms[j].duration.unit \notin DurationUnits])
        \cup whole("vitalSigns.temperature.value",
                   \E t \in body.vitalSigns.temperature : ~(t >= 900 /\ t <= 1100))
        \cup whole("vitalSigns.heartRate",
                   \E h \in body.vitalSigns.heartRate : ~(h >= 30 /\ h <= 220))
        \cup whole("vitalSigns.oxygenSaturation",
                   \E o \in body.vitalSigns.oxygenSaturation : ~(o >= 70 /\ o <= 100))

\* What the mlAnalysis sub-document of the schema keeps of a result.
storedAnalysis(result) ==
    [riskScore |-> result.riskScore,
     predictedSyndrome |-> result.predictedSyndrome,
     confidence |-> result.confidence,
     recommendations |-> result.recommendations,
     flaggedForReview |-> result.flaggedForReview]

\* new SymptomRecord(symptomData): the schema lower-cases the symptom names.
newSymptomRecord(body) ==
    [symptoms |-> [i \in DOMAIN body.symptoms |->
                      [body.symptoms[i] EXCEPT !.name = toLowerCase(@)]],
     vitalSigns |-> body.vitalSigns,
     additionalInfo |-> body.additionalInfo,
     mlAnalysis |-> {}]

\* POST /api/patients/symptoms with the body held in report:
\* validateSymptomRecord and handleValidationErrors, then the handler.
PostSymptoms(activeModel, random) ==
    LET errors == validateSymptomRecord(report)
        symptomRecord == newSymptomRecord(report)
        mlAnalysis == IF activeModel
                      THEN analyzeSymptoms(symptomRecord, "ready", random)
                      ELSE routeFallback(random)
    IN  IF errors # {}
        THEN /\ call' = [op |-> "post-symptoms", status |-> 400, errors |-> errors]
             /\ UNCHANGED <<featureEncoder, report, storeVars, outbreakVars>>
        ELSE /\ Len(symptomRecords) < MaxRecords
             /\ initialize
             /\ symptomRecords' =
                    Append(symptomRecords,
                           [symptomRecord EXCEPT !.mlAnalysis = {storedAnalysis(mlAnalysis)}])
             /\ call' = [op |-> "post-symptoms", status |-> 201,
                         record |-> Len(symptomRecords) + 1]
             /\ UNCHANGED <<report, analyses, patientVars, portalVars, outbreakVars>>

\* POST /api/ml/analyze { symptomRecordId }.
PostAnalyze(symptomRecordId, activeModel, random) ==
    IF symptomRecordId \notin DOMAIN symptomRecords
    THEN /\ call' = [op |-> "post-analyze", status |-> 404]
         /\ UNCHANGED <<featureEncoder, report, storeVars, outbreakVars>>
    ELSE IF ~activeModel
    THEN /\ call' = [op |-> "post-analyze", status |-> 503]
         /\ UNCHANGED <<featureEncoder, report, storeVars, outbreakVars>>
    ELSE LET analysisResult ==
                 analyzeSymptoms(symptomRecords[symptomRecordId], featureEncoder, random)
         IN  /\ symptomRecords' =
                    [symptomRecords EXCEPT
                        ![symptomRecordId].mlAnalysis = {storedAnalysis(analysisResult)}]
             /\ call' = [op |-> "post-analyze", status |-> 200,
                         record |-> symptomRecordId,
                         analysis |-> storedAnalysis(analysisResult)]
             /\ UNCHANGED <<featureEncoder, report, analyses, patientVars, portalVars, outbreakVars>>

InitRecords ==
    /\ featureEncoder = "null"
    /\ report \in SubmissionBodies
    /\ call = NoCall
    /\ InitStoreIdle
    /\ InitOutbreakIdle

NextRecords ==
    \/ \E activeModel \in BOOLEAN, random \in RandomSamples :
          PostSymptoms(activeModel, random)
    \/ \E id \in 1..MaxRecords, activeModel \in BOOLEAN, random \in RandomSamples :
          PostAnalyze(id, activeModel, random)

SpecRecords == InitRecords /\ [][NextRecords]_vars

(***************************************************************************)
(* A detection run whose storage operations may fail.  A rejected findOne  *)
(* or save rejects detectNewOutbreaks; the catch block of the route        *)
(* answers 500.  What the run saved before the failure stays saved.        *)
(***************************************************************************)
\* The run answering 200 with the outbreaks it had created when it failed.
FailRunSilently(p) ==
    /\ runs[p].pc # "idle"
    /\ response' = [op |-> "detect",
                    status |-> 200,
                    newOutbreaks |-> runs[p].newOutbreaks,
                    threshold |-> runs[p].threshold,
                    timeWindow |-> runs[p].timeWindow]
    /\ runs' = [runs EXCEPT ![p] = IdleRun]
    /\ UNCHANGED <<mlVars, now, cases, outbreaks>>

\* An awaited storage operation of the run rejects:
\* catch (error) { res.status(500).json({ msg: 'Server Error' }) }
FailRun(p) ==
    /\ runs[p].pc # "idle"
    /\ response' = [op |-> "detect",
                    status |-> 500,
                    threshold |-> runs[p].threshold,
                    timeWindow |-> runs[p].timeWindow]
    /\ runs' = [runs EXCEPT ![p] = IdleRun]
    /\ UNCHANGED <<mlVars, now, cases, outbreaks>>

InitRetry ==
    /\ InitMLIdle
    /\ now = 0
    /\ cases = <<>>
    /\ outbreaks = <<>>
    /\ response = [op |-> "none"]
    /\ runs = <<IdleRun>>

\* POST /symptom-analysis while no detection request is being served.
CreateCaseBetweenRuns(predictedDisease, confidence) ==
    /\ \A p \in DOMAIN runs : runs[p].pc = "idle"
    /\ CreateCase(MaxCases, predictedDisease, confidence)

\* Case reports between runs, and one detection request at a time, each of
\* which may fail and be sent again.
NextRetry ==
    \/ \E d \in Diseases, c \in {500000} : CreateCaseBetweenRuns(d, c)
    \/ \E t \in Thresholds, w \in SurgeTimeWindows : StartRun(1, t, w)
    \/ FindExisting(1)
    \/ SaveOutbreak(1)
    \/ FinishRun(1)
    \/ FailRun(1)

SpecRetry == InitRetry /\ [][NextRetry]_vars

\* The thresholds of the detection requests of the severity runs: the lowest
\* and the default.
BandThresholds == {1, 3}

\* Cases of each disease and detection runs at a low and at the default
\* threshold: outbreaks of 1 to MaxSurgeCases cases, none or all of them
\* emergencies.
NextBands ==
    \/ \E d \in Diseases, c \in {500000} : CreateCase(MaxSurgeCases, d, c)
    \/ \E t \in BandThresholds, w \in SurgeTimeWindows : DetectOutbreaks(t, w)

SpecBands == InitOutbreaks /\ [][NextBands]_vars

(***************************************************************************)
(* POST /symptom-analysis as a whole (routes/healthcareRoutes.js): the     *)
(* SymptomAnalysis is saved, then the DiseaseCase, without a transaction.  *)
(***************************************************************************)
\* analysisResult.predictedDisease samples; one label carries a leading space.
PredictedDiseases == Diseases \cup {" flu"}

\* The trim setter of DiseaseCase.diseaseName on the samples.
trim(s) == IF s = " flu" THEN "flu" ELSE s

\* What the python analysis and the two saves can do: all succeed, the analysis
\* reports no success, or diseaseCase.save() rejects.
IntakeOutcomes == {"ok", "analysis-failed", "case-save-rejects"}

\* new SymptomAnalysis(...) after its pre-save hook.
newSymptomAnalysis(predictedDisease, confidence) ==
    [predictedDisease |-> predictedDisease,
     confidence |-> confidence,
     severity |-> analysisSeverity(predictedDisease, confidence),
     isEmergency |-> analysisIsEmergency(predictedDisease)]

\* new DiseaseCase(...) of the route, built from the saved analysis.
caseOfAnalysis(symptomAnalysisId, symptomAnalysis) ==
    [diseaseName |-> trim(symptomAnalysis.predictedDisease),
     confidence |-> symptomAnalysis.confidence,
     symptomAnalysisId |-> symptomAnalysisId,
     location |-> Hospital,
     caseDate |-> now,
     severity |-> symptomAnalysis.severity,
     isEmergency |-> symptomAnalysis.isEmergency,
     status |-> "detected",
     isOutbreakRelated |-> FALSE,
     outbreakId |-> {}]

PostSymptomAnalysis(predictedDisease, confidence, outcome) ==
    /\ Len(analyses) < MaxRecords
    /\ IF outcome = "analysis-failed"
       THEN /\ response' = [op |-> "symptom-analysis", status |-> 500]
            /\ UNCHANGED <<analyses, cases>>
       ELSE LET symptomAnalysis == newSymptomAnalysis(predictedDisease, confidence)
                id == Len(analyses) + 1
            IN  /\ analyses' = Append(analyses, symptomAnalysis)
                /\ IF outcome = "case-save-rejects"
                   THEN /\ response' = [op |-> "symptom-analysis", status |-> 500]
                        /\ UNCHANGED cases
                   ELSE /\ cases' = Append(cases, caseOfAnalysis(id, symptomAnalysis))
                        /\ response' = [op |-> "symptom-analysis", status |-> 201]
    /\ UNCHANGED <<featureEncoder, report, call, symptomRecords, patientVars, portalVars,
                   now, outbreaks, runs>>

NextIntake ==
    \E d \in PredictedDiseases, c \in ConfidenceLevels, outcome \in IntakeOutcomes :
        PostSymptomAnalysis(d, c, outcome)

SpecIntake == InitOutbreaks /\ [][NextIntake]_vars

(***************************************************************************)
(* The detection window against a wall clock.  new Date() (detection) and  *)
(* Date.now (the caseDate default) read the clock of the server that       *)
(* serves the request, which can be corrected backwards or differ between  *)
(* server instances.                                                       *)
(***************************************************************************)
\* The clock the next request reads is a day behind the last one read.
ClockStepsBack ==
    /\ now > 0
    /\ now' = now - 1
    /\ UNCHANGED <<mlVars, cases, outbreaks, response, runs>>

NextWindow ==
    \/ \E d \in Diseases : CreateCase(MaxCases, d, 500000)
    \/ Tick
    \/ ClockStepsBack
    \/ \E q \in MonitorQueries : MonitorOutbreaks(q.threshold, q.timeWindow)

SpecWindow == InitOutbreaks /\ [][NextWindow]_vars

(***************************************************************************)
(* POST /outbreaks/:id/update-stats and updateStatistics (part_005).       *)
(***************************************************************************)
\* The $match stage of updateStatistics without the _id condition: a fresh
\* query of the cases of the outbreak's disease and location.
statisticsMatchFreshGroup(caseList, outbreak) ==
    {i \in DOMAIN caseList :
        /\ caseList[i].diseaseName = outbreak.diseaseName
        /\ caseList[i].location = outbreak.location}

\* $match: _id in affectedPatients, diseaseName and location of the outbreak.
statisticsMatch(caseList, outbreak) ==
    {i \in DOMAIN caseList :
        /\ i \in outbreak.affectedPatients
        /\ caseList[i].diseaseName = outbreak.diseaseName
        /\ caseList[i].location = outbreak.location}

\* updateStatistics counting the resolved cases over the whole collection.
updateStatisticsResolvedOverAll(caseList, outbreak) ==
    LET ids == statisticsMatch(caseList, outbreak)
    IN  IF ids = {} THEN outbreak
        ELSE [outbreak EXCEPT
                !.totalCases = Cardinality(ids),
                !.emergencyCases = Cardinality({i \in ids : caseList[i].isEmergency}),
                !.criticalCases = Cardinality({i \in ids : caseList[i].severity = "critical"}),
                !.resolvedCases =
                    Cardinality({i \in DOMAIN caseList : caseList[i].status = "resolved"})]

\* outbreak.updateStatistics(): the $group stage over the matched cases; with
\* no matched case the aggregation returns nothing and the outbreak is left
\* as it is.
updateStatistics(caseList, outbreak) ==
    LET ids == statisticsMatch(caseList, outbreak)
    IN  IF ids = {} THEN outbreak
        ELSE [outbreak EXCEPT
                !.totalCases = Cardinality(ids),
                !.emergencyCases = Cardinality({i \in ids : caseList[i].isEmergency}),
                !.criticalCases = Cardinality({i \in ids : caseList[i].severity = "critical"}),
                !.resolvedCases = Cardinality({i \in ids : caseList[i].status = "resolved"})]

UpdateStats(id) ==
    IF id \notin DOMAIN outbreaks
    THEN /\ response' = [op |-> "update-stats", status |-> 404, id |-> id]
         /\ UNCHANGED <<mlVars, now, cases, outbreaks, runs>>
    ELSE /\ outbreaks' = [outbreaks EXCEPT ![id] = updateStatistics(cases, @)]
         /\ response' = [op |-> "update-stats", status |-> 200, id |-> id]
         /\ UNCHANGED <<mlVars, now, cases, runs>>

\* The statuses a doctor's review sets in the statistics runs.
ReviewStatuses == {"confirmed", "resolved"}

\* Cases, their reviews, outbreaks by detection and by declaration, and
\* statistics refreshes.
NextStats ==
    \/ \E d \in Diseases, c \in {500000} : CreateCase(MaxCases, d, c)
    \/ \E id \in DOMAIN cases, st \in ReviewStatuses : UpdateDiseaseCase(id, {st}, {})
    \/ \E t \in Thresholds, w \in SurgeTimeWindows : DetectOutbreaks(t, w)
    \/ \E d \in Diseases, sv \in {"medium"} : ManualOutbreak(d, sv)
    \/ \E id \in 1..MaxOutbreaks : UpdateStats(id)

SpecStats == InitOutbreaks /\ [][NextStats]_vars

(***************************************************************************)
(* MLService.extractFeatures: the numeric features of a report, in         *)
(* millionths.  The one-hot part depends on the encoder's list and is left *)
(* out; blood pressure and respiratory rate are not part of the model's    *)
(* reports and always take their defaults.                                 *)
(***************************************************************************)
MaxFeatureSymptoms == 21

RECURSIVE severitySum(_)
severitySum(symptoms) ==
    IF symptoms = <<>> THEN 0
    ELSE Head(symptoms).severity + severitySum(Tail(symptoms))

\* vitals.x || default
orDefault(value, default) == IF value = {} THEN default ELSE CHOOSE v \in value : TRUE

extractFeatures(symptomRecord) ==
    LET count == Len(symptomRecord.symptoms)
        vitals == symptomRecord.vitalSigns
        temp == orDefault(vitals.temperature, 986)
        heartRate == orDefault(vitals.heartRate, 72)
        oxygenSat == orDefault(vitals.oxygenSaturation, 98)
    IN  [avgSeverity |-> (severitySum(symptomRecord.symptoms) * 100000) \div count,
         symptomCount |-> count * 50000,
         temperature |-> (temp - 950) * 10000,
         heartRate |-> ((heartRate - 40) * 1000000) \div 120,
         oxygenSaturation |-> ((oxygenSat - 70) * 1000000) \div 30,
         recentTravel |-> IF symptomRecord.additionalInfo.recentTravel THEN 1000000 ELSE 0,
         recentExposure |-> IF symptomRecord.additionalInfo.recentExposure THEN 1000000 ELSE 0]

\* Reports of 1 to MaxFeatureSymptoms symptoms: the validator asks for at
\* least one symptom and sets no upper limit.
FeatureReports ==
    { MakeReport([i \in 1..n |-> [name |-> "fever", severity |-> IF i = 1 THEN s ELSE 3]],
                 [vitalSigns |-> v, additionalInfo |-> NoInfo]) :
        n \in 1..MaxFeatureSymptoms, s \in Severities, v \in VitalProfiles }

CallExtractFeatures(random) ==
    /\ call.op = "none"
    /\ call' = [op |-> "features",
                features |-> extractFeatures(report),
                result |-> analyzeSymptoms(report, featureEncoder, random)]
    /\ UNCHANGED <<featureEncoder, report, outbreakVars, storeVars>>

InitFeatures ==
    /\ featureEncoder = "ready"
    /\ report \in FeatureReports
    /\ call = NoCall
    /\ InitStoreIdle
    /\ InitOutbreakIdle

NextFeatures == \E random \in RandomSamples : CallExtractFeatures(random)

SpecFeatures == InitFeatures /\ [][NextFeatures]_vars

(***************************************************************************)
(* The actions log of an outbreak: POST /outbreaks/:id/actions (addAction) *)
(* and the other administrative routes.                                    *)
(***************************************************************************)
MaxActions == 2

\* POST /outbreaks/:id/actions: outbreak.addAction pushes an entry and saves.
AddAction(id, action) ==
    IF id \notin DOMAIN outbreaks
    THEN /\ response' = [op |-> "actions", status |-> 404]
         /\ UNCHANGED <<mlVars, now, cases, outbreaks, runs>>
    ELSE /\ Len(outbreaks[id].actions) < MaxActions
         /\ outbreaks' = [outbreaks EXCEPT ![id].actions = Append(@, action)]
         /\ response' = [op |-> "actions", status |-> 200]
         /\ UNCHANGED <<mlVars, now, cases, runs>>

\* The bodies sent to PUT /outbreaks/:id in the runs of the actions log: a
\* status change and a body with an empty actions array.
AuditBodies ==
    {[status |-> {"resolved"}, severity |-> {}, actions |-> {}, isActive |-> {FALSE}],
     [status |-> {}, severity |-> {}, actions |-> {<<>>}, isActive |-> {}]}

NextAudit ==
    \/ \E d \in {"flu"}, c \in {500000} : CreateCase(1, d, c)
    \/ \E d \in {"flu"}, sv \in {"medium"} : ManualOutbreak(d, sv)
    \/ \E id \in 1..MaxOutbreaks : AddAction(id, "Quarantine ward")
    \/ \E id \in 1..MaxOutbreaks, b \in AuditBodies :
          UpdateOutbreak(id, b.status, b.severity, b.actions, b.isActive)
    \/ \E id \in 1..MaxOutbreaks : UpdateStats(id)

SpecAudit == InitOutbreaks /\ [][NextAudit]_vars

(***************************************************************************)
(* Patient.updateSymptomAnalysisHistory (part_006) under concurrent        *)
(* requests of one patient: findById, the increments on the loaded copy,   *)
(* and save, which writes the paths the copy modified.                     *)
(***************************************************************************)
MaxAnalyses == 3

IdleUpdate == [pc |-> "idle"]

\* The route reached Patient.updateSymptomAnalysisHistory: findById returns a
\* copy of the stored document.
FindPatient(p, predictedDisease, confidence) ==
    /\ historyRuns[p].pc = "idle"
    /\ performed < MaxAnalyses
    /\ historyRuns' =
           [historyRuns EXCEPT ![p] =
               [pc |-> "found",
                analysisData |-> newSymptomAnalysis(predictedDisease, confidence),
                loaded |-> patient]]
    /\ performed' = performed + 1
    /\ UNCHANGED <<featureEncoder, report, call, symptomRecords, analyses, patient,
                   portalVars, outbreakVars>>

\* The increments on the loaded copy and patient.save().
SavePatient(p) ==
    /\ historyRuns[p].pc = "found"
    /\ LET loaded == historyRuns[p].loaded
           analysisData == historyRuns[p].analysisData
       IN  patient' =
               [patient EXCEPT
                   !.totalAnalyses = loaded.totalAnalyses + 1,
                   !.emergencyAnalyses =
                       IF analysisData.isEmergency
                       THEN loaded.emergencyAnalyses + 1 ELSE @,
                   !.highRiskAnalyses =
                       IF analysisData.severity \in {"high", "critical"}
                       THEN loaded.highRiskAnalyses + 1 ELSE @]
    /\ historyRuns' = [historyRuns EXCEPT ![p] = IdleUpdate]
    /\ UNCHANGED <<featureEncoder, report, call, symptomRecords, analyses, performed,
                   portalVars, outbreakVars>>

InitHistory ==
    /\ featureEncoder = "null"
    /\ report = MakeReport(<<[name |-> "fever", severity |-> 3]>>,
                           [vitalSigns |-> NoVitals, additionalInfo |-> NoInfo])
    /\ call = NoCall
    /\ symptomRecords = <<>>
    /\ analyses = <<>>
    /\ patient = NewHistory
    /\ historyRuns = [p \in 1..MaxRuns |-> IdleUpdate]
    /\ performed = 0
    /\ accounts = <<>>
    /\ uploads = <<>>
    /\ InitOutbreakIdle

NextHistory ==
    \/ \E p \in 1..MaxRuns, d \in Diseases : FindPatient(p, d, 500000)
    \/ \E p \in 1..MaxRuns : SavePatient(p)

SpecHistory == InitHistory /\ [][NextHistory]_vars

(***************************************************************************)
(* Patient accounts: login, token refresh, /me, the routes behind the      *)
(* authenticate middleware, and account deactivation (backend/routes/      *)
(* auth.js, backend/routes/ml.js, backend/middleware/auth.js).  Tokens are *)
(* stateless JWTs; the model counts those issued to each patient.          *)
(***************************************************************************)
MaxPatients == 2
MaxTokens == 2

accountResponse(op, status, p, data, token) ==
    [op |-> op, status |-> status, patient |-> p, data |-> data, token |-> token]

\* authenticate: the token verifies, the patient exists and isActive.
authenticate(p, tokenValid) == tokenValid /\ accounts[p].isActive

\* generateToken in a route that answers with a new token.
issueToken(p) ==
    /\ accounts[p].tokens < MaxTokens
    /\ accounts' = [accounts EXCEPT ![p].tokens = @ + 1]

accountUnchanged ==
    UNCHANGED <<featureEncoder, report, call, symptomRecords, analyses, patientVars,
                uploads, now, cases, outbreaks, runs>>

\* POST /api/auth/login with the patient's email.
Login(p, passwordValid) ==
    /\ IF ~accounts[p].isActive
       THEN /\ response' = accountResponse("login", 401, p, FALSE, FALSE)
            /\ UNCHANGED accounts
       ELSE IF ~passwordValid
       THEN /\ response' = accountResponse("login", 401, p, FALSE, FALSE)
            /\ UNCHANGED accounts
       ELSE /\ issueToken(p)
            /\ response' = accountResponse("login", 200, p, TRUE, TRUE)
    /\ accountUnchanged

\* POST /api/auth/refresh with a token of the patient.
Refresh(p, tokenValid) ==
    /\ accounts[p].tokens >= 1
    /\ IF ~tokenValid \/ ~accounts[p].isActive
       THEN /\ response' = accountResponse("refresh", 401, p, FALSE, FALSE)
            /\ UNCHANGED accounts
       ELSE /\ issueToken(p)
            /\ response' = accountResponse("refresh", 200, p, FALSE, TRUE)
    /\ accountUnchanged

\* GET /api/auth/me with a token of the patient: the token is verified and
\* the patient looked up; isActive is not read.
GetMe(p, tokenValid) ==
    /\ accounts[p].tokens >= 1
    /\ response' = IF tokenValid
                   THEN accountResponse("me", 200, p, TRUE, FALSE)
                   ELSE accountResponse("me", 401, p, FALSE, FALSE)
    /\ UNCHANGED accounts
    /\ accountUnchanged

\* GET /api/patients/profile, one of the routes behind authenticate.
GetProfile(p, tokenValid) ==
    /\ accounts[p].tokens >= 1
    /\ response' = IF authenticate(p, tokenValid)
                   THEN accountResponse("profile", 200, p, TRUE, FALSE)
                   ELSE accountResponse("profile", 401, p, FALSE, FALSE)
    /\ UNCHANGED accounts
    /\ accountUnchanged

\* DELETE /api/patients/account with the password in the body.
DeleteAccount(p, tokenValid, passwordValid) ==
    /\ accounts[p].tokens >= 1
    /\ IF ~authenticate(p, tokenValid)
       THEN /\ response' = accountResponse("delete-account", 401, p, FALSE, FALSE)
            /\ UNCHANGED accounts
       ELSE IF ~passwordValid
       THEN /\ response' = accountResponse("delete-account", 400, p, FALSE, FALSE)
            /\ UNCHANGED accounts
       ELSE /\ accounts' = [accounts EXCEPT ![p].isActive = FALSE]
            /\ response' = accountResponse("delete-account", 200, p, FALSE, FALSE)
    /\ accountUnchanged

InitAccounts ==
    /\ featureEncoder = "null"
    /\ report = MakeReport(<<[name |-> "fever", severity |-> 3]>>,
                           [vitalSigns |-> NoVitals, additionalInfo |-> NoInfo])
    /\ call = NoCall
    /\ symptomRecords = <<>>
    /\ analyses = <<>>
    /\ patient = NewHistory
    /\ historyRuns = <<>>
    /\ performed = 0
    /\ accounts = [p \in 1..MaxPatients |-> [isActive |-> TRUE, tokens |-> 0]]
    /\ uploads = <<>>
    /\ InitOutbreakIdle

NextAccounts ==
    \/ \E p \in 1..MaxPatients, passwordValid \in BOOLEAN : Login(p, passwordValid)
    \/ \E p \in 1..MaxPatients, tokenValid \in BOOLEAN : Refresh(p, tokenValid)
    \/ \E p \in 1..MaxPatients, tokenValid \in BOOLEAN : GetMe(p, tokenValid)
    \/ \E p \in 1..MaxPatients, tokenValid \in BOOLEAN : GetProfile(p, tokenValid)
    \/ \E p \in 1..MaxPatients, tokenValid \in BOOLEAN, passwordValid \in BOOLEAN :
          DeleteAccount(p, tokenValid, passwordValid)

SpecAccounts == InitAccounts /\ [][NextAccounts]_vars

(***************************************************************************)
(* Prescription uploads (routes/prescriptionRoutes.js).  An upload is the   *)
(* stored PrescriptionUpload document together with the position of the    *)
(* background parse the upload route started for it: "parsing" while        *)
(* parsePrescription and the handlers chained on it are pending, "done"     *)
(* once they have run.                                                      *)
(***************************************************************************)
MaxUploads == 2

\* What extractDate left in parsedData.followUpDate: nothing, a Date, or the
\* Invalid Date that new Date("31/12/2025") is.
FollowUpDates == {"none", "valid", "Invalid Date"}

uploadUnchanged ==
    UNCHANGED <<featureEncoder, report, call, symptomRecords, analyses,
                patientVars, accounts, outbreakVars>>

\* POST /upload-prescription: the document is saved with parsingStatus
\* 'processing' and the parse is started without being awaited.
UploadPrescription(hasFile, hasPatientId) ==
    /\ Len(uploads) < MaxUploads
    /\ uploads' = IF hasFile /\ hasPatientId
                  THEN Append(uploads, [parsingStatus |-> "processing",
                                        pc |-> "parsing",
                                        isVerified |-> FALSE,
                                        status |-> "active"])
                  ELSE uploads
    /\ uploadUnchanged

\* The handler chained on parsePrescription.  parsePrescription catches every
\* error and resolves with success false, so the handler always runs.  It
\* sets parsingStatus on the document in memory and awaits
\* prescriptionUpload.save(); the save rejects when the database refuses the
\* write or when parsedData does not cast to the schema (followUpDate is a
\* Date, and an Invalid Date does not cast).  A rejection is caught and
\* logged, and nothing is written.
ParseFinished(u, success, followUpDate, databaseUp) ==
    /\ u \in DOMAIN uploads
    /\ uploads[u].pc = "parsing"
    /\ LET assigned == IF success THEN "completed" ELSE "failed"
           saved == databaseUp /\ ~(success /\ followUpDate = "Invalid Date")
       IN  uploads' = [uploads EXCEPT
                          ![u].parsingStatus = IF saved THEN assigned ELSE @,
                          ![u].pc = "done"]
    /\ uploadUnchanged

\* POST /prescription/:id/verify: a doctor sets isVerified; save() writes the
\* modified paths only.
VerifyPrescription(u, isDoctor, isVerified) ==
    /\ u \in DOMAIN uploads
    /\ uploads' = IF isDoctor
                  THEN [uploads EXCEPT ![u].isVerified = isVerified]
                  ELSE uploads
    /\ uploadUnchanged

\* DELETE /prescription/:id: the record is kept with status 'deleted'.
DeletePrescription(u, authorized) ==
    /\ u \in DOMAIN uploads
    /\ uploads' = IF authorized
                  THEN [uploads EXCEPT ![u].status = "deleted"]
                  ELSE uploads
    /\ uploadUnchanged

InitUploads ==
    /\ featureEncoder = "null"
    /\ report = MakeReport(<<[name |-> "fever", severity |-> 3]>>,
                           [vitalSigns |-> NoVitals, additionalInfo |-> NoInfo])
    /\ call = NoCall
    /\ symptomRecords = <<>>
    /\ analyses = <<>>
    /\ patient = NewHistory
    /\ historyRuns = <<>>
    /\ performed = 0
    /\ accounts = <<>>
    /\ uploads = <<>>
    /\ InitOutbreakIdle

NextUploads ==
    \/ \E hasFile \in BOOLEAN, hasPatientId \in BOOLEAN :
          UploadPrescription(hasFile, hasPatientId)
    \/ \E u \in 1..MaxUploads, success \in BOOLEAN,
          followUpDate \in FollowUpDates, databaseUp \in BOOLEAN :
          ParseFinished(u, success, followUpDate, databaseUp)
    \/ \E u \in 1..MaxUploads, isDoctor \in BOOLEAN, isVerified \in BOOLEAN :
          VerifyPrescription(u, isDoctor, isVerified)
    \/ \E u \in 1..MaxUploads, authorized \in BOOLEAN :
          DeletePrescription(u, authorized)

SpecUploads == InitUploads /\ [][NextUploads]_vars

(***************************************************************************)
(* Properties of the analysis service.                                     *)
(***************************************************************************)
\* The result of the last call, when that call attached an analysis.
Attached == call.op \in {"symptoms", "analyze"}
ViaAnalyzeSymptoms == Attached /\ call.route = "analyzeSymptoms"
NormalResult == ViaAnalyzeSymptoms /\ ~call.result.error

\* C4: every analysis result that can be attached to a report (the rule-based
\* result, the error fallback, the no-active-model fallback of the route) has
\* 0 <= riskScore <= 1 and 0 <= confidence <= 1.
C4_ScoresInUnitInterval ==
    Attached =>
        /\ 0 <= call.result.riskScore /\ call.result.riskScore <= 1000000
        /\ 0 <= call.result.confidence /\ call.result.confidence <= 1000000

\* A rule-based result whose weights add up to more than 1.0 and were capped.
C4_Witness ==
    /\ NormalResult
    /\ 100000 + symptomRisk(symptomNamesOf(report)) + vitalRisk(report.vitalSigns) > 1000000
    /\ call.result.riskScore = 1000000

\* The report with every repeated symptom name (compared in lower case)
\* removed, the first occurrence kept.
RECURSIVE DedupeSymptoms(_, _)
DedupeSymptoms(symptoms, seen) ==
    IF symptoms = <<>> THEN <<>>
    ELSE IF toLowerCase(Head(symptoms).name) \in seen
         THEN DedupeSymptoms(Tail(symptoms), seen)
         ELSE <<Head(symptoms)>>
              \o DedupeSymptoms(Tail(symptoms), seen \cup {toLowerCase(Head(symptoms).name)})

Deduplicated(symptomRecord) ==
    [symptomRecord EXCEPT !.symptoms = DedupeSymptoms(symptomRecord.symptoms, {})]

\* C5: duplicate symptom names do not double-count: the riskScore of a report
\* equals the riskScore of the same report with the repeated names removed.
C5_DuplicatesDoNotDoubleCount ==
    NormalResult =>
        call.result.riskScore = round3(computeRiskScore(Deduplicated(report)))

\* The categories in priority order, and the triggers a category needs.
SyndromeOrder ==
    <<"respiratory_infection", "gastrointestinal", "flu", "neurological", "cardiac">>
TriggersNeeded(syndrome) == IF syndrome = "cardiac" THEN 1 ELSE 2
TriggersPresent(i, names) ==
    Cardinality(syndromeRules[i].triggers \cap names)
CategoryMatches(i, names) ==
    TriggersPresent(i, names) >= TriggersNeeded(SyndromeOrder[i])

SevenPredicates(riskScore, confidence, symptomRecord) ==
    \/ riskScore >= 700000
    \/ confidence < 300000
    \/ Cardinality({i \in DOMAIN symptomRecord.symptoms :
                       symptomRecord.symptoms[i].severity >= 8}) >= 2
    \/ symptomRecord.additionalInfo.recentTravel
    \/ symptomRecord.additionalInfo.recentExposure
    \/ \E t \in symptomRecord.vitalSigns.temperature : t > 1030
    \/ \E h \in symptomRecord.vitalSigns.heartRate : h > 100
    \/ \E o \in symptomRecord.vitalSigns.oxygenSaturation : o < 95

\* C7: shouldFlagForReview is true exactly when one of the seven predicates
\* holds; it is true whenever oxygenSaturation = 90.
C7_FlagIffAnyPredicate ==
    call.op = "flag" =>
        /\ call.result <=> SevenPredicates(call.riskScore, call.confidence, report)
        /\ report.vitalSigns.oxygenSaturation = {90} => call.result

\* A report flagged on oxygenSaturation = 90 alone.
C7_Witness ==
    /\ call.op = "flag"
    /\ call.result
    /\ call.riskScore < 700000 /\ call.confidence >= 300000
    /\ report.vitalSigns = [NoVitals EXCEPT !.oxygenSaturation = {90}]
    /\ report.additionalInfo = NoInfo
    /\ \A i \in DOMAIN report.symptoms : report.symptoms[i].severity < 8

TierLines ==
    {"Seek immediate medical attention", "Consider emergency room visit",
     "Schedule urgent appointment with healthcare provider", "Monitor symptoms closely",
     "Schedule routine appointment with healthcare provider", "Continue monitoring symptoms",
     "Continue self-care and monitoring", "Seek medical attention if symptoms worsen"}

\* C8: generateRecommendations returns a non-empty list that begins with
\* exactly one risk-tier block, chosen by riskScore >= 0.8, >= 0.6, >= 0.4,
\* else self-care; for 0.85 it begins with the immediate-attention block.
C8_OneRiskTierBlockFirst ==
    call.op = "recommend" =>
        LET r == call.riskScore
            out == call.result
            first == IF r >= 800000 THEN "Seek immediate medical attention"
                     ELSE IF r >= 600000
                          THEN "Schedule urgent appointment with healthcare provider"
                     ELSE IF r >= 400000
                          THEN "Schedule routine appointment with healthcare provider"
                     ELSE "Continue self-care and monitoring"
            second == IF r >= 800000 THEN "Consider emergency room visit"
                      ELSE IF r >= 600000 THEN "Monitor symptoms closely"
                      ELSE IF r >= 400000 THEN "Continue monitoring symptoms"
                      ELSE "Seek medical attention if symptoms worsen"
        IN  /\ Len(out) >= 2
            /\ out[1] = first /\ out[2] = second
            /\ {i \in DOMAIN out : out[i] \in TierLines} = {1, 2}
            /\ r = 850000 => /\ out[1] = "Seek immediate medical attention"
                             /\ out[2] = "Consider emergency room visit"

\* The call with riskScore 0.85, answered with the emergency block first.
C8_Witness ==
    /\ call.op = "recommend"
    /\ call.riskScore = 850000
    /\ call.result[1] = "Seek immediate medical attention"

(***************************************************************************)
(* Properties of outbreak detection.                                       *)
(***************************************************************************)
SameKey(a, b) == a.diseaseName = b.diseaseName /\ a.location = b.location

\* C2: after any sequence of detection runs, manual declarations and
\* outbreak updates, at most one Outbreak with isActive = true exists for
\* each (diseaseName, location) pair.
C2_AtMostOneActivePerPair ==
    \A a, b \in DOMAIN outbreaks :
        (outbreaks[a].isActive /\ outbreaks[b].isActive /\ SameKey(outbreaks[a], outbreaks[b]))
            => a = b

\* C3: a detection run that finds an active Outbreak for a pair creates no
\* Outbreak for that pair, returns none for it, and leaves the record as it was.
C3_DetectionIdempotent ==
    [][\A t \in Thresholds, w \in SurgeTimeWindows :
          (response'.op = "detect" /\ DetectOutbreaks(t, w)) =>
              \A o \in DOMAIN outbreaks :
                  outbreaks[o].isActive =>
                      /\ Len(outbreaks') >= Len(outbreaks)
                      /\ outbreaks'[o] = outbreaks[o]
                      /\ \A n \in (Len(outbreaks) + 1)..Len(outbreaks') :
                            ~SameKey(outbreaks'[n], outbreaks[o])
                      /\ \A n \in response'.newOutbreaks :
                            ~SameKey(outbreaks'[n], outbreaks[o])]_vars

\* A run that returned nothing although a group of an active outbreak's pair
\* reaches its threshold.
C3_Witness ==
    /\ response.op = "detect"
    /\ response.newOutbreaks = {}
    /\ \E o \in DOMAIN outbreaks :
          /\ outbreaks[o].isActive
          /\ \E g \in potentialOutbreaks(cases, now, response.threshold, response.timeWindow) :
                SameKey(g._id, outbreaks[o])

\* The documented severity of a new outbreak.
SeverityBand(caseCount, emergencyCases) ==
    CASE caseCount >= 20 \/ emergencyCases >= 5 -> "critical"
      [] ~(caseCount >= 20 \/ emergencyCases >= 5)
           /\ (caseCount >= 10 \/ emergencyCases >= 3) -> "high"
      [] ~(caseCount >= 20 \/ emergencyCases >= 5)
           /\ ~(caseCount >= 10 \/ emergencyCases >= 3)
           /\ caseCount >= 5 -> "medium"
      [] OTHER -> "low"

\* The cases of a disease that a run with this window counts.
Qualifying(d, timeWindow) ==
    {i \in DOMAIN cases : /\ cases[i].diseaseName = d
                          /\ cases[i].location = Hospital
                          /\ cases[i].status \in {"detected", "confirmed"}
                          /\ cases[i].caseDate >= now - timeWindow
                          /\ cases[i].caseDate <= now}

\* What a detection step does for 5 qualifying cases of a disease with no
\* active outbreak: one new outbreak of 5 cases, of severity medium when
\* onlyBelow3Emergencies is FALSE or fewer than 3 of the cases are emergencies.
FiveCasesRule(onlyBelow3Emergencies) ==
    \A t \in SurgeThresholds, w \in SurgeTimeWindows :
        (response'.op = "detect" /\ DetectOutbreaks(t, w)) =>
            /\ \A n \in (Len(outbreaks) + 1)..Len(outbreaks') :
                  outbreaks'[n].severity =
                      SeverityBand(outbreaks'[n].totalCases, outbreaks'[n].emergencyCases)
            /\ \A d \in Diseases :
                  ( /\ t = 3
                    /\ Cardinality(Qualifying(d, w)) = 5
                    /\ ~existingOutbreak(outbreaks, [diseaseName |-> d, location |-> Hospital])
                    /\ onlyBelow3Emergencies =>
                          Cardinality({i \in Qualifying(d, w) : cases[i].isEmergency}) < 3 )
                  => LET made == {n \in response'.newOutbreaks :
                                     outbreaks'[n].diseaseName = d}
                     IN  /\ Cardinality(made) = 1
                         /\ \A n \in made : /\ outbreaks'[n].totalCases = 5
                                            /\ outbreaks'[n].severity = "medium"

\* C9 as stated: the severity bands; and 5 qualifying cases of one disease,
\* threshold 3, no prior active outbreak: exactly one outbreak, 5 cases, medium.
C9_SeverityBandsAndFiveCases == [][FiveCasesRule(FALSE)]_vars

\* C9 as amended: the same, the 5 cases holding fewer than 3 emergency cases.
C9_SeverityBandsAndFiveCalmCases == [][FiveCasesRule(TRUE)]_vars

\* A run at threshold 3 that produced one outbreak of 5 cases, severity medium.
C9_Witness ==
    /\ response.op = "detect"
    /\ response.threshold = 3
    /\ \E n \in DOMAIN outbreaks :
          /\ response.newOutbreaks = {n}
          /\ outbreaks[n].totalCases = 5
          /\ outbreaks[n].emergencyCases < 3
          /\ outbreaks[n].severity = "medium"
          /\ Cardinality(Qualifying(outbreaks[n].diseaseName, response.timeWindow)) = 5

\* C10: the candidates are exactly the (diseaseName, location) groups whose
\* count of cases with status detected or confirmed inside the window reaches
\* the threshold; other statuses never count; caseCount, emergencyCases and
\* criticalCases are the counts over the counted cases.
C10_CandidatesCountQualifyingCases ==
    \A t \in Thresholds, w \in TimeWindows :
        LET got == potentialOutbreaks(cases, now, t, w)
        IN  /\ \A d \in Diseases :
                  (\E g \in got : g._id = [diseaseName |-> d, location |-> Hospital])
                      <=> Cardinality(Qualifying(d, w)) >= t
            /\ \A g, h \in got : g._id = h._id => g = h
            /\ \A g \in got :
                  LET counted == Qualifying(g._id.diseaseName, w)
                  IN  /\ g._id.location = Hospital
                      /\ g.caseCount = Cardinality(counted)
                      /\ g.emergencyCases =
                             Cardinality({i \in counted : cases[i].isEmergency})
                      /\ g.criticalCases =
                             Cardinality({i \in counted : cases[i].severity = "critical"})
                      /\ \A i \in g.caseIds :
                             cases[i].status \notin {"treated", "resolved", "false_positive"}

\* Monitoring reported a group while a case of the same disease, inside the
\* window, had a status that does not count.
C10_Witness ==
    /\ response.op = "monitor"
    /\ \E g \in response.potentialOutbreaks :
          /\ g \in potentialOutbreaks(cases, now, response.threshold, response.timeWindow)
          /\ \E i \in DOMAIN cases :
                /\ cases[i].diseaseName = g._id.diseaseName
                /\ cases[i].status \in {"treated", "resolved", "false_positive"}
                /\ cases[i].caseDate >= now - response.timeWindow
                /\ i \notin g.caseIds

\* C1: whatever the interleaving of concurrent detection runs, once all of
\* them have finished there is at most one active Outbreak per
\* (diseaseName, location) pair.
C1_AtMostOneActiveAfterConcurrentRuns ==
    (\A p \in DOMAIN runs : runs[p].pc = "idle") => C2_AtMostOneActivePerPair

(***************************************************************************)
(* Properties of symptom submission and re-analysis.                       *)
(***************************************************************************)
\* The three invalid inputs of the error taxonomy, read off the body.
EmptySymptomList(body) == Len(body.symptoms) = 0
SeverityOutOfRange(body, i) == body.symptoms[i].severity < 1 \/ body.symptoms[i].severity > 10
UnknownDurationUnit(body, i) ==
    body.symptoms[i].duration.unit \notin {"minutes", "hours", "days", "weeks"}

\* C11: a submission with an empty symptom list, a severity outside 1..10 or
\* a duration unit outside {minutes, hours, days, weeks} is answered 400 with
\* an error naming each failing field, before scoring (the service is not
\* touched), and no SymptomRecord and no analysis is stored.
C11_InvalidSubmissionRejected ==
    [][(call'.op = "post-symptoms" /\ call' # call) =>
          LET named(field, i) == [field |-> field, index |-> i - 1] \in call'.errors
          IN  /\ EmptySymptomList(report) =>
                    /\ call'.status = 400
                    /\ [field |-> "symptoms", index |-> -1] \in call'.errors
              /\ \A i \in DOMAIN report.symptoms :
                    /\ SeverityOutOfRange(report, i) =>
                          call'.status = 400 /\ named("severity", i)
                    /\ UnknownDurationUnit(report, i) =>
                          call'.status = 400 /\ named("duration.unit", i)
              /\ call'.status = 400 =>
                    /\ symptomRecords' = symptomRecords
                    /\ analyses' = analyses
                    /\ featureEncoder' = featureEncoder]_vars

\* A submission whose second symptom alone has a severity above 10, rejected
\* with an error naming symptoms[1].severity and nothing stored.
C11_Witness ==
    /\ call.op = "post-symptoms"
    /\ call.status = 400
    /\ call.errors = {[field |-> "severity", index |-> 1]}
    /\ report.symptoms[2].severity = 11
    /\ symptomRecords = <<>>

\* The syndromes a result may name.
SyndromeNames ==
    {"respiratory_infection", "gastrointestinal", "flu", "neurological", "cardiac",
     "unknown", "Unknown"}

\* C12: analyzeSymptoms always returns, whatever the encoder state and the
\* report, a result with riskScore, predictedSyndrome, confidence, a non-empty
\* recommendations list and flaggedForReview all set; the result returned on
\* an internal error has flaggedForReview = true.
C12_AnalysisAlwaysComplete ==
    ViaAnalyzeSymptoms =>
        LET result == call.result
        IN  /\ {"riskScore", "predictedSyndrome", "confidence", "recommendations",
                "flaggedForReview"} \subseteq DOMAIN result
            /\ result.riskScore \in 0..1000000
            /\ result.confidence \in 0..1000000
            /\ result.predictedSyndrome \in SyndromeNames
            /\ Len(result.recommendations) >= 1
            /\ \A i \in DOMAIN result.recommendations : result.recommendations[i] # ""
            /\ result.flaggedForReview \in BOOLEAN
            /\ analysisThrows(report, IF call.op = "analyze" THEN featureEncoder ELSE "ready")
                   => result.error /\ result.flaggedForReview
            /\ result.error => result.flaggedForReview

\* An initialized service analysing a report with the name "constructor":
\* the try block throws and the fallback result comes back, flagged.
C12_Witness ==
    /\ ViaAnalyzeSymptoms
    /\ featureEncoder = "ready"
    /\ "constructor" \in Range(symptomNamesOf(report))
    /\ call.result.error
    /\ call.result.flaggedForReview
    /\ call.result.riskScore = 500000

\* C13: an AnalysisResult is immutable once created: a re-analysis of an
\* analysed record adds a new analysis and every analysis the record had
\* before the request is still stored with it, unchanged, after the request.
C13_EarlierAnalysesKept ==
    [][\A id \in DOMAIN symptomRecords :
          /\ id \in DOMAIN symptomRecords'
          /\ symptomRecords[id].mlAnalysis \subseteq symptomRecords'[id].mlAnalysis
          /\ (call'.op = "post-analyze" /\ call'.status = 200 /\ call'.record = id
                /\ symptomRecords' # symptomRecords)
                => Cardinality(symptomRecords'[id].mlAnalysis)
                       = Cardinality(symptomRecords[id].mlAnalysis) + 1]_vars

(***************************************************************************)
(* Properties of detection runs that fail and are retried.                 *)
(***************************************************************************)
ActiveFor(key) ==
    {o \in DOMAIN outbreaks : outbreaks[o].isActive /\ SameKey(outbreaks[o], key)}

\* C14: a detection request whose run failed on a storage operation is
\* answered with an error, never with a success; and a request answered with
\* success (a retry included) leaves exactly one active outbreak for every
\* qualifying (diseaseName, location) group, and at most one for any pair.
C14_FailureSurfacedRetryCompletes ==
    (response.op = "detect" /\ \A p \in DOMAIN runs : runs[p].pc = "idle") =>
        /\ response.status \in {200, 500}
        /\ response.status = 200 =>
              /\ \A g \in potentialOutbreaks(cases, now, response.threshold,
                                            response.timeWindow) :
                    Cardinality(ActiveFor(g._id)) = 1
              /\ response.newOutbreaks \subseteq DOMAIN outbreaks
        /\ \A a, b \in DOMAIN outbreaks :
              (outbreaks[a].isActive /\ outbreaks[b].isActive
                 /\ SameKey(outbreaks[a], outbreaks[b])) => a = b

\* A successful run that created only the second outbreak although the case
\* of the first outbreak is younger than the case of the second and both
\* outbreaks have the run's threshold: the run that created the first
\* outbreak failed before it reached the second group, and this is its retry.
C14_Witness ==
    /\ response.op = "detect"
    /\ response.status = 200
    /\ runs[1].pc = "idle"
    /\ Len(outbreaks) = 2
    /\ response.newOutbreaks = {2}
    /\ outbreaks[1].affectedPatients = {2}
    /\ outbreaks[2].affectedPatients = {1}
    /\ outbreaks[1].threshold = response.threshold
    /\ outbreaks[2].threshold = response.threshold
    /\ outbreaks[1].timeWindow = outbreaks[2].timeWindow

C16_EveryAnalysisHasItsCase ==
    \A a \in DOMAIN analyses :
        LET linked == {k \in DOMAIN cases : cases[k].symptomAnalysisId = a}
        IN  /\ Cardinality(linked) = 1
            /\ \A k \in linked :
                  /\ cases[k].diseaseName = analyses[a].predictedDisease
                  /\ cases[k].confidence = analyses[a].confidence
                  /\ cases[k].severity = analyses[a].severity
                  /\ cases[k].isEmergency = analyses[a].isEmergency

(***************************************************************************)
(* The back-references of the cases of a detected outbreak.                *)
(***************************************************************************)
\* C17: when outbreak detection creates an Outbreak it links all related
\* disease cases: after the run every DiseaseCase in the new outbreak's
\* affected set has isOutbreakRelated = true and outbreakId referencing that
\* Outbreak.
C17_DetectedOutbreakLinksCases ==
    response.op = "detect" =>
        \A o \in response.newOutbreaks :
            \A k \in outbreaks[o].affectedPatients :
                /\ k \in DOMAIN cases
                /\ cases[k].isOutbreakRelated
                /\ cases[k].outbreakId = {o}

(***************************************************************************)
(* The risk score as a closed formula.                                     *)
(***************************************************************************)
\* C18: the risk score POST /api/patients/symptoms returns from analyzeSymptoms
\* equals min(1.0, 0.10 + the sum of the table weights of the submitted names
\* (lower-cased, unmatched names contributing 0; fever 0.30, chest_pain 0.40,
\* shortness_of_breath 0.30, dizziness 0.20, cough 0.15, headache 0.10,
\* fatigue 0.10, nausea 0.15, vomiting 0.20, diarrhea 0.15, abdominal_pain 0.20)
\* + 0.20 if temperature > 102 + 0.10 if heart rate > 100 + 0.30 if oxygen
\* saturation < 95), and is the same for the report with its symptoms reversed.
C18_RiskScoreIsTableSum ==
    (call.op = "symptoms" /\ call.route = "analyzeSymptoms") =>
        LET weight(n) ==
                CASE n = "fever" -> 300000
                  [] n = "chest_pain" -> 400000
                  [] n = "shortness_of_breath" -> 300000
                  [] n = "dizziness" -> 200000
                  [] n = "cough" -> 150000
                  [] n = "headache" -> 100000
                  [] n = "fatigue" -> 100000
                  [] n = "nausea" -> 150000
                  [] n = "vomiting" -> 200000
                  [] n = "diarrhea" -> 150000
                  [] n = "abdominal_pain" -> 200000
                  [] OTHER -> 0
            names == symptomNamesOf(report)
            total == IF Len(names) = 1 THEN weight(names[1])
                     ELSE weight(names[1]) + weight(names[2])
            vitals == report.vitalSigns
            penalties ==
                  (IF \E t \in vitals.temperature : t > 1020 THEN 200000 ELSE 0)
                + (IF \E h \in vitals.heartRate : h > 100 THEN 100000 ELSE 0)
                + (IF \E o \in vitals.oxygenSaturation : o < 95 THEN 300000 ELSE 0)
            reversed ==
                [report EXCEPT !.symptoms =
                    [i \in DOMAIN report.symptoms |->
                        report.symptoms[Len(report.symptoms) + 1 - i]]]
        IN  /\ call.result.riskScore = Min(1000000, 100000 + total + penalties)
            /\ \A random \in RandomSamples :
                  analyzeSymptoms(reversed, "ready", random).riskScore
                      = call.result.riskScore

(***************************************************************************)
(* The syndrome block and the symptom lines of the recommendations.        *)
(***************************************************************************)
\* C19: after the two lines of the risk tier, generateRecommendations appends
\* exactly one syndrome block: the respiratory, gastrointestinal or fever
\* block when the syndrome, lower-cased, is 'respiratory infection',
\* 'gastrointestinal' or 'fever', otherwise the single generic line; then the
\* fever-monitoring line if and only if some symptom name contains 'fever' or
\* 'temperature', then the two cough lines if and only if some name contains
\* 'cough'; and nothing else.
C19_OneSyndromeBlockThenSymptomLines ==
    call.op = "recommend" =>
        LET rest == SubSeq(call.result, 3, Len(call.result))
            key == toLowerCase(call.syndrome)
            block ==
                IF key = "respiratory infection" THEN
                    <<"Rest and stay hydrated", "Use humidifier if available",
                      "Avoid close contact with others">>
                ELSE IF key = "gastrointestinal" THEN
                    <<"Maintain hydration",
                      "Follow BRAT diet (bananas, rice, applesauce, toast)",
                      "Avoid dairy and fatty foods">>
                ELSE IF key = "fever" THEN
                    <<"Monitor temperature regularly", "Stay hydrated",
                      "Use fever-reducing medications as directed">>
                ELSE <<"Follow general illness care guidelines">>
            lower == {toLowerCase(report.symptoms[i].name) : i \in DOMAIN report.symptoms}
            feverish == \E n \in lower : n \in {"fever", "high temperature"}
            coughing == \E n \in lower : n = "dry cough"
            feverLine == IF feverish THEN <<"Monitor temperature every 4 hours">> ELSE <<>>
            coughLines == IF coughing THEN <<"Use cough suppressants as needed",
                                             "Avoid irritants like smoke">> ELSE <<>>
        IN  /\ Len(call.result) >= 2
            /\ rest = block \o feverLine \o coughLines

\* A call with the syndrome in capitals and a report naming a temperature and
\* a cough: two tier lines, the respiratory block, the fever line, the cough lines.
C19_Witness ==
    /\ call.op = "recommend"
    /\ call.syndrome = "Respiratory Infection"
    /\ \E i \in DOMAIN report.symptoms : report.symptoms[i].name = "High Temperature"
    /\ \E i \in DOMAIN report.symptoms : report.symptoms[i].name = "Dry Cough"
    /\ Len(call.result) = 8
    /\ call.result[3] = "Rest and stay hydrated"
    /\ call.result[6] = "Monitor temperature every 4 hours"

(***************************************************************************)
(* The time window of a detection group.                                   *)
(***************************************************************************)
\* C20: only cases whose caseDate lies within [now - timeWindowDays, now] count
\* toward a detection group: every case of every candidate a monitoring run
\* returns is dated neither before the window start nor later than the moment
\* of the run, and caseCount counts exactly those cases.
C20_OnlyCasesInsideWindowCount ==
    [][\A q \in MonitorQueries :
          MonitorOutbreaks(q.threshold, q.timeWindow) =>
              \A g \in response'.potentialOutbreaks :
                  /\ g.caseCount = Cardinality(g.caseIds)
                  /\ \A i \in g.caseIds :
                        /\ cases[i].caseDate >= now - q.timeWindow
                        /\ cases[i].caseDate <= now]_vars

(***************************************************************************)
(* The totals of an outbreak after a statistics refresh.                   *)
(***************************************************************************)
\* C21: after updateStatistics completes on an outbreak, its totalCases,
\* emergencyCases, criticalCases and resolvedCases equal the counts over the
\* DiseaseCase records currently in its affected-case set, not those of a
\* fresh query of the cases of its disease.
C21_TotalsFromAffectedCases ==
    (response.op = "update-stats" /\ response.status = 200) =>
        LET o == outbreaks[response.id]
            affected == {i \in DOMAIN cases : i \in o.affectedPatients}
        IN  /\ o.affectedPatients \subseteq DOMAIN cases
            /\ o.totalCases = Cardinality(affected)
            /\ o.emergencyCases = Cardinality({i \in affected : cases[i].isEmergency})
            /\ o.criticalCases = Cardinality({i \in affected : cases[i].severity = "critical"})
            /\ o.resolvedCases = Cardinality({i \in affected : cases[i].status = "resolved"})

\* A refresh of an outbreak that has a resolved case in its affected set while
\* another case of the same disease is outside the set.
C21_Witness ==
    /\ response.op = "update-stats"
    /\ response.status = 200
    /\ outbreaks[response.id].resolvedCases = 1
    /\ outbreaks[response.id].totalCases = 1
    /\ \E i \in DOMAIN cases :
          /\ i \notin outbreaks[response.id].affectedPatients
          /\ cases[i].diseaseName = outbreaks[response.id].diseaseName

(***************************************************************************)
(* The features of a report against the documented extractor.              *)
(***************************************************************************)
\* C22: for every valid report a missing vital sign gives the same feature
\* value as supplying its default (98.6 F, heart rate 72, oxygen saturation
\* 98), the average-severity feature is severity_sum / count / 10, the
\* symptom-count feature is count / 20 capped at 1.0, and a report with no
\* vital signs gets a risk score within [0, 1].
C22_FeaturesAsDocumented ==
    call.op = "features" =>
        LET count == Len(report.symptoms)
            vitals == report.vitalSigns
            supplied ==
                [report EXCEPT
                    !.vitalSigns =
                        [temperature |-> IF vitals.temperature = {} THEN {986}
                                         ELSE vitals.temperature,
                         heartRate |-> IF vitals.heartRate = {} THEN {72}
                                       ELSE vitals.heartRate,
                         oxygenSaturation |-> IF vitals.oxygenSaturation = {} THEN {98}
                                              ELSE vitals.oxygenSaturation]]
            total == severitySum(report.symptoms)
        IN  /\ call.features.temperature = extractFeatures(supplied).temperature
            /\ call.features.heartRate = extractFeatures(supplied).heartRate
            /\ call.features.oxygenSaturation = extractFeatures(supplied).oxygenSaturation
            /\ call.features.avgSeverity = (total * 100000) \div count
            /\ call.features.symptomCount = Min(count * 50000, 1000000)
            /\ vitals = NoVitals =>
                  (call.result.riskScore >= 0 /\ call.result.riskScore <= 1000000)

(***************************************************************************)
(* The analysis as a function of the report alone.                         *)
(***************************************************************************)
\* C23: the riskScore, predictedSyndrome, recommendations and flaggedForReview
\* that analyzeSymptoms returns for a report are a function of that report
\* alone: they are the same whatever the state of the shared MLService
\* instance (encoders initialised or never initialised) and whatever ran before.
C23_ResultDependsOnReportOnly ==
    (call.op \in {"symptoms", "analyze"} /\ call.route = "analyzeSymptoms") =>
        \A encoder \in {"null", "ready"}, random \in RandomSamples :
            LET other == analyzeSymptoms(report, encoder, random)
            IN  /\ other.riskScore = call.result.riskScore
                /\ other.predictedSyndrome = call.result.predictedSyndrome
                /\ other.recommendations = call.result.recommendations
                /\ other.flaggedForReview = call.result.flaggedForReview

(***************************************************************************)
(* The audit trail of outbreak management.                                 *)
(***************************************************************************)
\* C24: the actions log of an outbreak is append-only: every step keeps every
\* entry once recorded, in place and unaltered; and every administrative
\* change of an outbreak's status or isActive comes with a new log entry.
C24_ActionsLogAppendOnly ==
    [][\A o \in DOMAIN outbreaks :
          /\ o \in DOMAIN outbreaks'
          /\ Len(outbreaks'[o].actions) >= Len(outbreaks[o].actions)
          /\ SubSeq(outbreaks'[o].actions, 1, Len(outbreaks[o].actions))
                 = outbreaks[o].actions
          /\ (\/ outbreaks'[o].status # outbreaks[o].status
              \/ outbreaks'[o].isActive # outbreaks[o].isActive)
                 => Len(outbreaks'[o].actions) > Len(outbreaks[o].actions)]_vars

(***************************************************************************)
(* The history counters of a patient under concurrent analyses.            *)
(***************************************************************************)
\* C25: in every reachable state, under any interleaving of concurrent symptom
\* analyses of one patient, emergencyAnalyses <= totalAnalyses and
\* highRiskAnalyses <= totalAnalyses, and once all analyses have completed
\* totalAnalyses equals the number of analyses performed for the patient.
C25_HistoryCountersConsistent ==
    /\ patient.emergencyAnalyses <= patient.totalAnalyses
    /\ patient.highRiskAnalyses <= patient.totalAnalyses
    /\ (\A p \in DOMAIN historyRuns : historyRuns[p].pc = "idle")
           => patient.totalAnalyses = performed

(***************************************************************************)
(* The totals of every outbreak.                                           *)
(***************************************************************************)
\* C26: for every outbreak, after any sequence of detection runs, manual
\* declarations, statistics refreshes and disease-case updates, totalCases is
\* the size of its affected-case set, and emergencyCases, criticalCases and
\* resolvedCases are each at most totalCases.
C26_TotalsWithinAffectedSet ==
    \A o \in DOMAIN outbreaks :
        /\ outbreaks[o].totalCases = Cardinality(outbreaks[o].affectedPatients)
        /\ outbreaks[o].emergencyCases <= outbreaks[o].totalCases
        /\ outbreaks[o].criticalCases <= outbreaks[o].totalCases
        /\ outbreaks[o].resolvedCases <= outbreaks[o].totalCases

\* A detected and a declared outbreak side by side, a refresh having counted a
\* resolved case, and a case reviewed after it.
C26_Witness ==
    /\ response.op = "disease-case"
    /\ Len(outbreaks) = 2
    /\ \E o \in DOMAIN outbreaks :
          /\ outbreaks[o].actions = <<>>
          /\ outbreaks[o].resolvedCases = 1
    /\ \E o \in DOMAIN outbreaks : outbreaks[o].actions # <<>>

(***************************************************************************)
(* The syndrome block of an analysis, end to end.                          *)
(***************************************************************************)
\* C27: in a result of analyzeSymptoms the recommendations contain the
\* respiratory-infection care block (rest and hydration, humidifier, avoid
\* close contact) if and only if predictedSyndrome is respiratory_infection,
\* and the gastrointestinal block if and only if it is gastrointestinal.
C27_SyndromeBlockMatchesPrediction ==
    (call.op \in {"symptoms", "analyze"} /\ call.route = "analyzeSymptoms"
        /\ ~call.result.error) =>
        LET lines == Range(call.result.recommendations)
            respiratory == {"Rest and stay hydrated", "Use humidifier if available",
                            "Avoid close contact with others"}
            gastrointestinal == {"Maintain hydration",
                                 "Follow BRAT diet (bananas, rice, applesauce, toast)",
                                 "Avoid dairy and fatty foods"}
        IN  /\ respiratory \subseteq lines
                <=> call.result.predictedSyndrome = "respiratory_infection"
            /\ gastrointestinal \subseteq lines
                <=> call.result.predictedSyndrome = "gastrointestinal"

(***************************************************************************)
(* Monotonicity of the risk score.                                         *)
(***************************************************************************)
\* C28: adding a symptom to a report, or changing a vital sign so that it
\* crosses a penalty threshold (temperature above 102, heart rate above 100,
\* oxygen saturation below 95), never lowers the riskScore analyzeSymptoms
\* returns, and a result whose riskScore is at least 0.7 is flagged for review.
C28_RiskScoreMonotone ==
    (call.op = "symptoms" /\ call.route = "analyzeSymptoms") =>
        LET score(r) == analyzeSymptoms(r, "ready", 0).riskScore
            vitals == report.vitalSigns
            crossed ==
                {[vitals EXCEPT !.temperature = {1035}],
                 [vitals EXCEPT !.heartRate = {101}],
                 [vitals EXCEPT !.oxygenSaturation = {90}]}
        IN  /\ score(report) = call.result.riskScore
            /\ \A e \in AnalysisEntries :
                  score([report EXCEPT !.symptoms = Append(@, e)]) >= score(report)
            /\ \A v \in crossed :
                  score([report EXCEPT !.vitalSigns = v]) >= score(report)
            /\ call.result.riskScore >= 700000 => call.result.flaggedForReview

(***************************************************************************)
(* Account deactivation.                                                   *)
(***************************************************************************)
\* C29: once DELETE /api/patients/account has set isActive = false for a
\* patient, no later request with that patient's token and no later login
\* returns the patient's data or a new token, and no operation sets isActive
\* back to true.
C29_DeactivationEffective ==
    [][/\ \A p \in DOMAIN accounts :
             ~accounts[p].isActive => ~accounts'[p].isActive
       /\ (response' # response /\ ~accounts[response'.patient].isActive)
             => (~response'.data /\ ~response'.token)]_vars

(***************************************************************************)
(* Prescription uploads.                                                   *)
(***************************************************************************)
\* C30: every prescription upload is stored with parsingStatus 'processing';
\* when the background parse and its follow-up saves have run, whatever
\* their outcome, the stored parsingStatus is 'completed' or 'failed'; and
\* once it is 'completed' or 'failed' it never changes again.
C30_ParsingStatusSettles ==
    [][\A u \in DOMAIN uploads' :
          /\ u \notin DOMAIN uploads
                => uploads'[u].parsingStatus = "processing"
          /\ uploads'[u].pc = "done"
                => uploads'[u].parsingStatus \in {"completed", "failed"}
          /\ (u \in DOMAIN uploads
              /\ uploads[u].parsingStatus \in {"completed", "failed"})
                => uploads'[u].parsingStatus = uploads[u].parsingStatus]_vars

====
